---- MODULE Spec2Model ----
(***************************************************************************)
(* County research pipeline of zonewise-agents                             *)
(* (src/app/langgraph/county_research_agent.py): the three acquisition     *)
(* strategies, the circuit breaker, the persistence step against the REST  *)
(* store, and the bounded-concurrency batch runner.                        *)
(*                                                                         *)
(* A run is a process r with a program counter pc[r] and the dictionary    *)
(* `state` of the code as the record st[r].  Every network call is a       *)
(* suspension point; the strategies touch only their own run state, so     *)
(* each is one step, while the escalation and the persistence step are     *)
(* split at their store calls.                                             *)
(***************************************************************************)
EXTENDS Integers, Sequences, FiniteSets, TLC

\* ------------------------------------------------------------------------
\* Bounds of the model
\* ------------------------------------------------------------------------
\* largest number of county configs handed to run_batch in SpecBatch
MaxCounties == 3
\* largest max_concurrent handed to run_batch in SpecBatch
MaxConcurrent == 2

\* ------------------------------------------------------------------------
\* County names and the ilike filter of the store
\* ------------------------------------------------------------------------
\* names are sequences of characters so that the case-insensitive
\* substring filter "county=ilike.%25{county}%25" is computed
BAY == <<"B", "a", "y">>
BAYS == <<"b", "a", "y", "s">>
POLK == <<"P", "o", "l", "k">>
\* a config without the county_name key (run_batch only)
NoName == <<>>

Lower(c) ==
  CASE c = "B" -> "b"
    [] c = "P" -> "p"
    [] OTHER -> c

LowerSeq(s) == [i \in 1..Len(s) |-> Lower(s[i])]

IsSubstr(p, s) ==
  /\ Len(p) <= Len(s)
  /\ \E i \in 0..(Len(s) - Len(p)) : SubSeq(s, i + 1, i + Len(p)) = p

\* county=ilike.%25{county}%25
ILike(pattern, value) == IsSubstr(LowerSeq(pattern), LowerSeq(value))

\* county_slug = re.sub(r"[^a-z0-9-]", "", county_name.lower()...)
Slug(name) == LowerSeq(name)

\* ------------------------------------------------------------------------
\* JSON values that can land in state["extracted_data"]
\* ------------------------------------------------------------------------
R1 == "R-1"
C2 == "C-2"
Dist(c) == [has_code |-> TRUE, code |-> c]
\* a district entry without the "code" key
DistNoCode == [has_code |-> FALSE, code |-> ""]
Std(c, ty) == [district_code |-> c, standard_type |-> ty]
Use(c, n) == [district_code |-> c, use_name |-> n]

JV(t, d, s, u) == [t |-> t, districts |-> d, standards |-> s, uses |-> u]
\* the key is not in the state dictionary
Absent == JV("absent", <<>>, <<>>, <<>>)
\* a falsy value that is not an object: null, [], 0, "", false
Falsy == JV("falsy", <<>>, <<>>, <<>>)
\* a truthy value that is not an object: [1], "text", 7, true
NonObj == JV("nonobj", <<>>, <<>>, <<>>)
\* {}
EmptyObj == JV("emptyobj", <<>>, <<>>, <<>>)
Obj(d, s, u) == JV("obj", d, s, u)

\* the example of the specification: one district, one standard, no use
PExample == Obj(<<Dist(R1)>>, <<Std(R1, "setback_front")>>, <<>>)
\* a standard and a use that reference a district the payload lacks
PDrop == Obj(<<Dist(R1)>>, <<Std(R1, "setback_front"), Std(C2, "setback_front")>>,
             <<Use(C2, "dwelling")>>)
PTwo == Obj(<<Dist(R1), Dist(C2)>>, <<Std(C2, "max_height")>>, <<Use(R1, "dwelling")>>)
\* standards without districts: has data, but nothing to resolve against
PStdOnly == Obj(<<>>, <<Std(R1, "setback_front")>>, <<>>)
\* uses only: a non-empty object with no district and no standard
PUsesOnly == Obj(<<>>, <<>>, <<Use(R1, "dwelling")>>)
\* a district entry that lacks its code
PNoCode == Obj(<<DistNoCode>>, <<>>, <<>>)

Payloads == {PExample, PDrop, PTwo, PStdOnly, PUsesOnly, PNoCode}
JsonValues == {Falsy, NonObj, EmptyObj} \cup Payloads

\* bool(v)
Truthy(v) == v.t \in {"nonobj", "obj"}
\* v has a .get method
IsDict(v) == v.t \in {"emptyobj", "obj"}

\* ------------------------------------------------------------------------
\* The store behind SupabaseClient
\* ------------------------------------------------------------------------
Store0 ==
  [jurisdictions |-> {[id |-> 1, county |-> BAY, data_completeness |-> 50, skill_last_validated |-> FALSE],
                      [id |-> 2, county |-> BAYS, data_completeness |-> 100, skill_last_validated |-> FALSE]},
   zoning_districts |-> {},
   zone_standards |-> {},
   permitted_uses |-> {},
   insights |-> <<>>,
   next_id |-> 10]

\* a select that leaves out the county filter
select_jurisdictions_any(db, county) == db.jurisdictions

\* SupabaseClient.select("jurisdictions", "county=ilike.%25{county}%25&select=id,name")
select_jurisdictions(db, county) == {j \in db.jurisdictions : ILike(county, j.county)}

\* a re-read that leaves out the jurisdiction filter
select_districts_all(db, jid) == db.zoning_districts

\* SupabaseClient.select("zoning_districts", "jurisdiction_id=eq.{id}&select=id,code")
select_districts(db, jid) == {d \in db.zoning_districts : d.jurisdiction_id = jid}

\* an update whose filter is county=eq.{county}
update_completeness_eq(db, county, val) ==
  [db EXCEPT !.jurisdictions =
     {IF j.county = county THEN [j EXCEPT !.data_completeness = val] ELSE j : j \in db.jurisdictions}]

\* SupabaseClient.update("jurisdictions", "county=ilike.%25{county}%25", data)
update_completeness(db, county, val) ==
  [db EXCEPT !.jurisdictions =
     {IF ILike(county, j.county) THEN [j EXCEPT !.data_completeness = val] ELSE j : j \in db.jurisdictions}]

\* an update that also marks the jurisdiction as complete
update_last_validated_completes(db, county) ==
  [db EXCEPT !.jurisdictions =
     {IF ILike(county, j.county)
      THEN [j EXCEPT !.skill_last_validated = TRUE, !.data_completeness = 100]
      ELSE j : j \in db.jurisdictions}]

\* SupabaseClient.update("jurisdictions", "county=ilike.%25{county}%25",
\* {"skill_last_validated": today})
update_last_validated(db, county) ==
  [db EXCEPT !.jurisdictions =
     {IF ILike(county, j.county) THEN [j EXCEPT !.skill_last_validated = TRUE] ELSE j : j \in db.jurisdictions}]

\* a write that keeps one insights row and overwrites it
insert_insight_overwrite(db, rec) == [db EXCEPT !.insights = <<rec>>]

\* SupabaseClient.insert("insights", record)
insert_insight(db, rec) == [db EXCEPT !.insights = Append(@, rec)]


\* SupabaseClient.upsert with "resolution=merge-duplicates" and on_conflict=key:
\* a record whose key columns equal those of an existing row is merged into
\* that row, any other record becomes a new row with a generated id
RECURSIVE upsert_insert_only(_, _, _, _)
upsert_insert_only(rows, next_id, records, key) ==
  IF records = <<>> THEN [rows |-> rows, next_id |-> next_id]
  ELSE upsert_insert_only(rows \cup {[id |-> next_id] @@ Head(records)}, next_id + 1, Tail(records), key)

RECURSIVE upsert(_, _, _, _)
upsert(rows, next_id, records, key) ==
  IF records = <<>> THEN [rows |-> rows, next_id |-> next_id]
  ELSE LET rec == Head(records)
           hit == {row \in rows : \A f \in key : row[f] = rec[f]}
       IN IF hit # {}
          THEN upsert(rows, next_id, Tail(records), key)
          ELSE upsert(rows \cup {[id |-> next_id] @@ rec}, next_id + 1, Tail(records), key)

\* ------------------------------------------------------------------------
\* Run state (CountyResearchState) and the inputs of run
\* ------------------------------------------------------------------------
MuniFound == "https://library.municode.com/fl/found"
ArcFound == "https://gis.found.arcgis.com/map"
MuniCfg == "https://library.municode.com/fl/given"
GisCfg == "https://gis.given.arcgis.com/map"

Config(name, anti, muni, gis) ==
  [county_name |-> name, portal_type |-> "municode", anti_scrape |-> anti,
   municode_url |-> muni, gis_url |-> gis]

\* the state dictionary built at the top of run; mode_used 0 and
\* extracted_data Absent stand for keys that are not set
NewState(cfg) ==
  [county_name |-> cfg.county_name,
   county_slug |-> Slug(cfg.county_name),
   portal_type |-> cfg.portal_type,
   anti_scrape |-> cfg.anti_scrape,
   municode_url |-> cfg.municode_url,
   gis_url |-> cfg.gis_url,
   failures |-> 0,
   portal_validated |-> FALSE,
   mode_used |-> 0,
   raw_html |-> FALSE,
   extracted_data |-> Absent,
   errors |-> <<>>,
   districts_upserted |-> 0,
   standards_upserted |-> 0,
   uses_upserted |-> 0,
   escalated |-> FALSE]

\* an error list that keeps the latest entry only
AddError_replaces(s, tag) == [s EXCEPT !.errors = <<tag>>]

\* state.setdefault("errors", []).append(tag)
AddError(s, tag) == [s EXCEPT !.errors = Append(@, tag)]

\* state.get("municode_url") or state.get("gis_url")
UrlOf(s) == IF s.municode_url # "" THEN s.municode_url ELSE s.gis_url

\* what a strategy coroutine ends with: it returns, it is cancelled by the
\* wait_for around it, or it raises
Out(status, s) == [status |-> status, state |-> s]

\* ------------------------------------------------------------------------
\* Mode 1 - discovery
\* ------------------------------------------------------------------------
\* the three search queries
NumQueries == 3
\* what one query does: the response holds a municode URL, an arcgis URL or
\* neither; the request fails; the soft budget of 28 s is used up before it;
\* the wait_for of run fires while it is awaited
\* ("both": the response holds a URL of either kind)
QueryOutcomes == {"municode", "arcgis", "both", "none", "error", "budget", "cancel"}

\* a loop that gives up at the first query that fails
RECURSIVE m1_queries_abort(_, _, _)
m1_queries_abort(i, qs, acc) ==
  IF i > Len(qs) THEN acc
  ELSE CASE qs[i] = "budget" -> acc
         [] qs[i] = "cancel" -> [acc EXCEPT !.cancelled = TRUE, !.issued = Append(@, i)]
         [] qs[i] \in {"municode", "both"} ->
              [acc EXCEPT !.found_url = MuniFound, !.portal_type = "municode", !.issued = Append(@, i)]
         [] qs[i] = "arcgis" ->
              [acc EXCEPT !.found_url = ArcFound, !.portal_type = "arcgis", !.issued = Append(@, i)]
         [] qs[i] = "error" -> [acc EXCEPT !.errors = Append(@, "mode1_query"), !.issued = Append(@, i)]
         [] OTHER -> m1_queries_abort(i + 1, qs, [acc EXCEPT !.issued = Append(@, i)])

\* a loop without "break": every query is sent and the last match is kept
RECURSIVE m1_queries_no_break(_, _, _)
m1_queries_no_break(i, qs, acc) ==
  IF i > Len(qs) THEN acc
  ELSE CASE qs[i] = "budget" -> acc
         [] qs[i] = "cancel" -> [acc EXCEPT !.cancelled = TRUE, !.issued = Append(@, i)]
         [] qs[i] \in {"municode", "both"} ->
              m1_queries_no_break(i + 1, qs, [acc EXCEPT !.found_url = MuniFound, !.portal_type = "municode",
                                                         !.issued = Append(@, i)])
         [] qs[i] = "arcgis" ->
              m1_queries_no_break(i + 1, qs, [acc EXCEPT !.found_url = ArcFound, !.portal_type = "arcgis",
                                                         !.issued = Append(@, i)])
         [] qs[i] = "error" ->
              m1_queries_no_break(i + 1, qs, [acc EXCEPT !.errors = Append(@, "mode1_query"),
                                                         !.issued = Append(@, i)])
         [] OTHER -> m1_queries_no_break(i + 1, qs, [acc EXCEPT !.issued = Append(@, i)])

\* (acc.issued lists the queries for which client.get was called)
RECURSIVE m1_queries(_, _, _)
m1_queries(i, qs, acc) ==
  IF i > Len(qs) THEN acc
  ELSE CASE qs[i] = "budget" -> acc
         [] qs[i] = "cancel" -> [acc EXCEPT !.cancelled = TRUE, !.issued = Append(@, i)]
         [] qs[i] \in {"municode", "both"} ->
              [acc EXCEPT !.found_url = MuniFound, !.portal_type = "municode", !.issued = Append(@, i)]
         [] qs[i] = "arcgis" ->
              [acc EXCEPT !.found_url = ArcFound, !.portal_type = "arcgis", !.issued = Append(@, i)]
         [] qs[i] = "error" ->
              m1_queries(i + 1, qs, [acc EXCEPT !.errors = Append(@, "mode1_query"), !.issued = Append(@, i)])
         [] OTHER -> m1_queries(i + 1, qs, [acc EXCEPT !.issued = Append(@, i)])

\* the locals of mode1_discovery when its query loop is left
m1_loop(s, qs) ==
  m1_queries(1, qs, [found_url |-> "", portal_type |-> s.portal_type,
                     errors |-> s.errors, cancelled |-> FALSE, issued |-> <<>>])

mode1_discovery(s, qs) ==
  LET acc == m1_loop(s, qs)
      s1 == [s EXCEPT !.errors = acc.errors]
      found == IF acc.found_url # "" THEN acc.found_url ELSE UrlOf(s)
  IN IF acc.cancelled THEN Out("cancelled", s1)
     ELSE Out("return",
              [s1 EXCEPT !.portal_validated = (found # ""),
                         !.mode_used = 1,
                         !.municode_url = IF found # "" /\ s.municode_url = "" THEN found ELSE @,
                         !.portal_type = IF acc.portal_type # "" THEN acc.portal_type ELSE @])

\* a wrapper that appends its tags and leaves the failures counter alone
Wrapped_no_count(out, n) ==
  CASE out.status = "cancelled" ->
         AddError(out.state, CASE n = 1 -> "mode1_timeout" [] n = 2 -> "mode2_timeout" [] OTHER -> "mode3_timeout")
    [] out.status = "raised" ->
         AddError(out.state, CASE n = 1 -> "mode1_exception" [] n = 2 -> "mode2_exception" [] OTHER -> "mode3_exception")
    [] OTHER -> out.state

\* a wrapper whose "except asyncio.TimeoutError" clause records nothing
Wrapped_silent(out, n) ==
  CASE out.status = "raised" ->
         AddError([out.state EXCEPT !.failures = @ + 1],
                  CASE n = 1 -> "mode1_exception" [] n = 2 -> "mode2_exception" [] OTHER -> "mode3_exception")
    [] OTHER -> out.state

\* the try/except around asyncio.wait_for(strategy, timeout) in run
Wrapped(out, n) ==
  CASE out.status = "cancelled" ->
         AddError([out.state EXCEPT !.failures = @ + 1],
                  CASE n = 1 -> "mode1_timeout" [] n = 2 -> "mode2_timeout" [] OTHER -> "mode3_timeout")
    [] out.status = "raised" ->
         AddError([out.state EXCEPT !.failures = @ + 1],
                  CASE n = 1 -> "mode1_exception" [] n = 2 -> "mode2_exception" [] OTHER -> "mode3_exception")
    [] OTHER -> out.state

\* ------------------------------------------------------------------------
\* Mode 2 - extraction
\* ------------------------------------------------------------------------
FetchOutcomes == {"ok", "error", "slow", "cancel"}
Llm(kind, v) == [kind |-> kind, value |-> v]
LlmOutcomes ==
  {Llm("error", Absent), Llm("cancel", Absent), Llm("unparsable", Absent)}
    \cup {Llm("json", v) : v \in JsonValues}

\* an extraction that stores {} when the answer does not parse
mode2_extraction_stores_empty(s, fetch, llm) ==
  IF UrlOf(s) = "" THEN Out("return", AddError(s, "mode2_no_url"))
  ELSE CASE fetch = "cancel" -> Out("cancelled", s)
         [] fetch = "error" -> Out("return", AddError(s, "mode2_fetch"))
         [] fetch = "slow" -> Out("return", AddError(s, "mode2_timeout_fetch"))
         [] llm.kind = "cancel" -> Out("cancelled", [s EXCEPT !.raw_html = TRUE])
         [] llm.kind = "error" ->
              Out("return", [AddError(s, "mode2_claude") EXCEPT !.raw_html = TRUE, !.mode_used = 2])
         [] llm.kind = "unparsable" ->
              Out("return", [AddError(s, "mode2_json") EXCEPT !.raw_html = TRUE, !.mode_used = 2,
                                                              !.extracted_data = EmptyObj])
         [] OTHER ->
              Out("return", [(IF IsDict(llm.value) THEN s ELSE AddError(s, "mode2_claude"))
                               EXCEPT !.raw_html = TRUE, !.extracted_data = llm.value, !.mode_used = 2])

\* an extraction that returns without a word when it has no URL
mode2_extraction_silent(s, fetch, llm) ==
  IF UrlOf(s) = "" THEN Out("return", s)
  ELSE CASE fetch = "cancel" -> Out("cancelled", s)
         [] fetch = "error" -> Out("return", AddError(s, "mode2_fetch"))
         [] fetch = "slow" -> Out("return", AddError(s, "mode2_timeout_fetch"))
         [] llm.kind = "cancel" -> Out("cancelled", [s EXCEPT !.raw_html = TRUE])
         [] llm.kind = "json" ->
              Out("return", [s EXCEPT !.raw_html = TRUE, !.extracted_data = llm.value, !.mode_used = 2])
         [] OTHER -> Out("return", [AddError(s, "mode2_json") EXCEPT !.raw_html = TRUE, !.mode_used = 2])

mode2_extraction(s, fetch, llm) ==
  IF UrlOf(s) = "" THEN Out("return", AddError(s, "mode2_no_url"))
  ELSE CASE fetch = "cancel" -> Out("cancelled", s)
         [] fetch = "error" -> Out("return", AddError(s, "mode2_fetch"))
         [] fetch = "slow" -> Out("return", AddError(s, "mode2_timeout_fetch"))
         [] OTHER ->
              LET s1 == [s EXCEPT !.raw_html = TRUE]
              IN CASE llm.kind = "cancel" -> Out("cancelled", s1)
                   [] llm.kind = "error" ->
                        Out("return", [AddError(s1, "mode2_claude") EXCEPT !.mode_used = 2])
                   [] llm.kind = "unparsable" ->
                        Out("return", [AddError(s1, "mode2_json") EXCEPT !.mode_used = 2])
                   [] OTHER ->
                        \* json.loads succeeded; the log line calls extracted.get
                        LET s2 == [s1 EXCEPT !.extracted_data = llm.value]
                            s3 == IF IsDict(llm.value) THEN s2 ELSE AddError(s2, "mode2_claude")
                        IN Out("return", [s3 EXCEPT !.mode_used = 2])

\* ------------------------------------------------------------------------
\* Mode 3 - assisted fallback
\* ------------------------------------------------------------------------
Modal(kind, v) == [kind |-> kind, value |-> v]
ModalOutcomes ==
  {Modal("cancel", Absent), Modal("timeout", Absent), Modal("error", Absent),
   Modal("http_error", Absent), Modal("bad_body", Absent), Modal("no_data", Absent)}
    \cup {Modal("data", v) : v \in JsonValues}

\* a fallback that empties the slot when the service rejects the request
mode3_clears_on_failure(s, resp) ==
  CASE resp.kind = "cancel" -> Out("cancelled", s)
    [] resp.kind = "timeout" -> Out("return", AddError(s, "mode3_modal_timeout"))
    [] resp.kind = "http_error" ->
         Out("return", [AddError(s, "mode3_modal_http") EXCEPT !.extracted_data = EmptyObj, !.mode_used = 3])
    [] resp.kind \in {"error", "bad_body"} -> Out("return", AddError(s, "mode3_modal"))
    [] resp.kind = "no_data" -> Out("return", [s EXCEPT !.extracted_data = EmptyObj, !.mode_used = 3])
    [] OTHER -> Out("return", [s EXCEPT !.extracted_data = resp.value, !.mode_used = 3])

mode3_agentql_fallback(s, resp) ==
  CASE resp.kind = "cancel" -> Out("cancelled", s)
    [] resp.kind = "timeout" -> Out("return", AddError(s, "mode3_modal_timeout"))
    [] resp.kind = "http_error" -> Out("return", AddError(s, "mode3_modal_http"))
    \* r.json() fails, or the body is not an object and result.get raises
    [] resp.kind \in {"error", "bad_body"} -> Out("return", AddError(s, "mode3_modal"))
    \* result.get("data", {})
    [] resp.kind = "no_data" -> Out("return", [s EXCEPT !.extracted_data = EmptyObj, !.mode_used = 3])
    [] OTHER -> Out("return", [s EXCEPT !.extracted_data = resp.value, !.mode_used = 3])

\* ------------------------------------------------------------------------
\* has_data / final_has_data of run
\* ------------------------------------------------------------------------
\* state["extracted_data"].get raises AttributeError on a truthy non-object
has_data_raises(s) == Truthy(s.extracted_data) /\ ~IsDict(s.extracted_data)

\* a test that asks for districts and standards together
has_data_both(s) ==
  /\ Truthy(s.extracted_data)
  /\ (s.extracted_data.districts # <<>> /\ s.extracted_data.standards # <<>>)

\* a test that asks for districts alone
has_data_districts_only(s) ==
  /\ Truthy(s.extracted_data)
  /\ s.extracted_data.districts # <<>>

has_data(s) ==
  /\ Truthy(s.extracted_data)
  /\ (s.extracted_data.districts # <<>> \/ s.extracted_data.standards # <<>>)


\* ------------------------------------------------------------------------
\* Persistence helpers (persist_to_supabase)
\* ------------------------------------------------------------------------
\* the list comprehension over districts raises KeyError on d["code"]
district_records_raise(extracted) ==
  \E i \in 1..Len(extracted.districts) : ~extracted.districts[i].has_code

district_records(extracted, jid) ==
  [i \in 1..Len(extracted.districts) |->
     [jurisdiction_id |-> jid, code |-> extracted.districts[i].code]]

\* {d["code"]: d["id"] for d in db_districts}
district_id_map_of(rows) ==
  [c \in {d.code : d \in rows} |-> CHOOSE i \in {d.id : d \in {x \in rows : x.code = c}} : TRUE]

Resolves(map, code) == code \in DOMAIN map

RECURSIVE SelectSeq2(_, _)
SelectSeq2(seq, map) ==
  IF seq = <<>> THEN <<>>
  ELSE IF Resolves(map, Head(seq).district_code)
       THEN <<Head(seq)>> \o SelectSeq2(Tail(seq), map)
       ELSE SelectSeq2(Tail(seq), map)

\* a broken reconciler that keeps every record and gives an unresolved one
\* the identifier of no district
standard_records_unfiltered(map, standards) ==
  [i \in 1..Len(standards) |->
     [zoning_district_id |-> IF Resolves(map, standards[i].district_code)
                             THEN map[standards[i].district_code] ELSE 0,
      standard_type |-> standards[i].standard_type,
      district_code |-> standards[i].district_code]]

\* the loop "for s in standards: dist_id = district_id_map.get(...); if dist_id"
\* (district_code is kept beside the row to relate it to its payload record)
standard_records(map, standards) ==
  LET kept == SelectSeq2(standards, map)
  IN [i \in 1..Len(kept) |->
        [zoning_district_id |-> map[kept[i].district_code],
         standard_type |-> kept[i].standard_type,
         district_code |-> kept[i].district_code]]

\* a reconciler that sends every use, resolved or not
use_records_unfiltered(map, uses) ==
  [i \in 1..Len(uses) |->
     [zoning_district_id |-> IF Resolves(map, uses[i].district_code) THEN map[uses[i].district_code] ELSE 0,
      use_name |-> uses[i].use_name,
      district_code |-> uses[i].district_code]]

use_records(map, uses) ==
  LET kept == SelectSeq2(uses, map)
  IN [i \in 1..Len(kept) |->
        [zoning_district_id |-> map[kept[i].district_code],
         use_name |-> kept[i].use_name,
         district_code |-> kept[i].district_code]]

\* the columns sent to the store
StdRow(rec) == [zoning_district_id |-> rec.zoning_district_id, standard_type |-> rec.standard_type]
UseRow(rec) == [zoning_district_id |-> rec.zoning_district_id, use_name |-> rec.use_name]
StdRows(recs) == [i \in 1..Len(recs) |-> StdRow(recs[i])]
UseRows(recs) == [i \in 1..Len(recs) |-> UseRow(recs[i])]

\* a count that trusts the body of the answer alone
upserted_count_len_result(resp, keys) ==
  IF resp = "rows" THEN Cardinality({keys[i] : i \in 1..Len(keys)}) ELSE 0

\* len(result) if result else len(records): the store answers with the rows
\* it wrote, one per conflict key, or with an empty body
upserted_count(resp, keys) ==
  IF resp = "rows" THEN Cardinality({keys[i] : i \in 1..Len(keys)}) ELSE Len(keys)

NoLoc == [jurisdiction_id |-> 0, db_districts |-> {}, district_id_map |-> <<>>,
          districts_upserted |-> 0, standards_upserted |-> 0, uses_upserted |-> 0]

\* persist_to_supabase run from its first upsert to its last with no other
\* task in between and every store call succeeding, for payload p and the
\* resolved jurisdiction jid
persist_sequential(db, p, jid) ==
  LET up1 == upsert(db.zoning_districts, db.next_id, district_records(p, jid), {"jurisdiction_id", "code"})
      db1 == [db EXCEPT !.zoning_districts = up1.rows, !.next_id = up1.next_id]
      map == IF p.districts # <<>> THEN district_id_map_of(select_districts(db1, jid)) ELSE <<>>
      up2 == upsert(db1.zone_standards, db1.next_id, StdRows(standard_records(map, p.standards)),
                    {"zoning_district_id", "standard_type"})
      db2 == [db1 EXCEPT !.zone_standards = up2.rows, !.next_id = up2.next_id]
      up3 == upsert(db2.permitted_uses, db2.next_id, UseRows(use_records(map, p.uses)),
                    {"zoning_district_id", "use_name"})
  IN [db2 EXCEPT !.permitted_uses = up3.rows, !.next_id = up3.next_id]

\* where persist_to_supabase goes next: a stage that makes no store call is
\* passed over
AfterUses == "persist_update"
\* a reconciler that returns once the standards upsert has failed
AfterStandards_abort(s, l) ==
  IF (\E i \in 1..Len(s.errors) : s.errors[i] = "persist_standards")
     \/ ~(s.extracted_data.uses # <<>> /\ DOMAIN l.district_id_map # {}
          /\ use_records(l.district_id_map, s.extracted_data.uses) # <<>>)
  THEN AfterUses ELSE "persist_uses"

AfterStandards(s, l) ==
  IF s.extracted_data.uses # <<>> /\ DOMAIN l.district_id_map # {}
     /\ use_records(l.district_id_map, s.extracted_data.uses) # <<>>
  THEN "persist_uses" ELSE AfterUses
AfterReread(s, l) ==
  IF s.extracted_data.standards # <<>> /\ DOMAIN l.district_id_map # {}
     /\ standard_records(l.district_id_map, s.extracted_data.standards) # <<>>
  THEN "persist_standards" ELSE AfterStandards(s, l)
AfterDistricts(s, l) ==
  IF l.districts_upserted > 0 THEN "persist_reread" ELSE AfterReread(s, l)
AfterSelect(s, l) ==
  IF s.extracted_data.districts # <<>>
  THEN (IF district_records_raise(s.extracted_data) THEN "raised" ELSE "persist_districts")
  ELSE AfterDistricts(s, l)

\* a result that always reports escalated = False
ResultOf_hides_escalation(s) ==
  [kind |-> "result",
   county |-> s.county_name,
   districts_upserted |-> s.districts_upserted,
   standards_upserted |-> s.standards_upserted,
   uses_upserted |-> s.uses_upserted,
   mode_used |-> s.mode_used,
   portal_validated |-> s.portal_validated,
   errors |-> s.errors,
   escalated |-> FALSE]

\* the dictionary returned by run
ResultOf(s) ==
  [kind |-> "result",
   county |-> s.county_name,
   districts_upserted |-> s.districts_upserted,
   standards_upserted |-> s.standards_upserted,
   uses_upserted |-> s.uses_upserted,
   mode_used |-> s.mode_used,
   portal_validated |-> s.portal_validated,
   errors |-> s.errors,
   escalated |-> s.escalated]

NoResult == [kind |-> "none"]

\* an exception that leaves run
Raised(error) == [kind |-> "exception", error |-> error]


\* ------------------------------------------------------------------------
\* State
\* ------------------------------------------------------------------------
VARIABLES
  pc,        \* pc[r]: where run r stands
  st,        \* st[r]: the state dictionary of run r
  loc,       \* loc[r]: the local variables of persist_to_supabase in run r
  res,       \* res[r]: what run r returned to its caller
  obs,       \* obs[r]: what run r has done so far (stages, store writes)
  store,     \* the tables behind SupabaseClient
  prev,      \* what the previous run of the same caller left (Spec)
  batch      \* run_batch: its arguments, semaphore, gathered results, return value

vars == <<pc, st, loc, res, obs, store, prev, batch>>

Runs == DOMAIN pc

NoObs == [stages |-> <<>>, after2 |-> Absent, inserted |-> 0, wrote |-> {}, failed |-> {},
          timed_out |-> {}, supplier |-> 0, llm |-> "none"]
NoPrev == [ran |-> FALSE]
NoBatch == [pc |-> "off"]

\* what the outside world may answer
FullEnv ==
  [crash |-> BOOLEAN, query |-> QueryOutcomes, fetch |-> FetchOutcomes,
   llm |-> LlmOutcomes, modal |-> ModalOutcomes,
   call |-> {"ok", "fail"}, resp |-> {"rows", "empty"}]

Stage(o, name) == [o EXCEPT !.stages = Append(@, name)]

\* the wait_for around Strategy n fired
TimedOut(o, out, n) == IF out.status = "cancelled" THEN [o EXCEPT !.timed_out = @ \cup {n}] ELSE o

\* the strategy whose payload was stored in state["extracted_data"] last
Supplied(o, n, stored) == IF stored THEN [o EXCEPT !.supplier = n] ELSE o

\* a body of run that calls Strategy 3 straight after Strategy 1 and never
\* calls Strategy 2
StageAfter_reordered(stage, s) ==
  CASE stage = "mode1" -> "mode3"
    [] stage = "mode2" -> "gate3"
    [] stage = "gate3" -> IF ~has_data(s) \/ s.anti_scrape THEN "mode3" ELSE "breaker"
    [] OTHER -> "breaker"

\* a body of run that calls Strategy 3 for anti-scrape counties only
StageAfter_no_fallback(stage, s) ==
  CASE stage = "mode1" -> "mode2"
    [] stage = "mode2" -> "gate3"
    [] stage = "gate3" -> IF s.anti_scrape THEN "mode3" ELSE "breaker"
    [] OTHER -> "breaker"

\* the statement order of the body of run: Mode 1, Mode 2, has_data and the
\* "if not has_data or anti_scrape" around Mode 3, then the circuit breaker
StageAfter(stage, s) ==
  CASE stage = "mode1" -> "mode2"
    [] stage = "mode2" -> "gate3"
    [] stage = "gate3" -> IF ~has_data(s) \/ s.anti_scrape THEN "mode3" ELSE "breaker"
    [] OTHER -> "breaker"

\* ------------------------------------------------------------------------
\* CountyResearchAgent.run, stage by stage
\* ------------------------------------------------------------------------
\* Mode 1 with the answers qs of the search engine to the three queries
Mode1Step(r, crash, qs) ==
  /\ pc[r] = "mode1"
  /\ qs[1] # "budget"
  /\ LET out == IF crash THEN Out("raised", st[r]) ELSE mode1_discovery(st[r], qs)
     IN /\ st' = [st EXCEPT ![r] = Wrapped(out, 1)]
        /\ obs' = [obs EXCEPT ![r] = TimedOut(Stage(@, "mode1"), out, 1)]
  /\ pc' = [pc EXCEPT ![r] = StageAfter("mode1", st'[r])]
  /\ UNCHANGED <<loc, res, store, batch>>

Mode1(r, E) ==
  /\ \E crash \in E.crash, qs \in [1..NumQueries -> E.query] : Mode1Step(r, crash, qs)
  /\ UNCHANGED prev

Mode2(r, E) ==
  /\ pc[r] = "mode2"
  /\ \E fetch \in E.fetch, llm \in E.llm :
       LET out == mode2_extraction(st[r], fetch, llm)
       IN /\ st' = [st EXCEPT ![r] = Wrapped(out, 2)]
          /\ obs' = [obs EXCEPT ![r] =
                        [Supplied(TimedOut(Stage(@, "mode2"), out, 2), 2,
                                  out.state.extracted_data # st[r].extracted_data)
                           EXCEPT !.after2 = st'[r].extracted_data,
                                  !.llm = IF UrlOf(st[r]) # "" /\ fetch = "ok" THEN llm.kind ELSE "none"]]
  /\ pc' = [pc EXCEPT ![r] = StageAfter("mode2", st'[r])]
  /\ UNCHANGED <<loc, res, store, prev, batch>>

\* has_data = ...; if not has_data or anti_scrape
Gate3(r) ==
  /\ pc[r] = "gate3"
  /\ pc' = [pc EXCEPT ![r] =
              IF has_data_raises(st[r]) THEN "raised" ELSE StageAfter("gate3", st[r])]
  /\ res' = [res EXCEPT ![r] = IF has_data_raises(st[r]) THEN Raised("AttributeError") ELSE @]
  /\ UNCHANGED <<st, loc, obs, store, prev, batch>>

Mode3(r, E) ==
  /\ pc[r] = "mode3"
  /\ \E resp \in E.modal :
       LET out == mode3_agentql_fallback(st[r], resp)
       IN /\ st' = [st EXCEPT ![r] = Wrapped(out, 3)]
          /\ obs' = [obs EXCEPT ![r] = Supplied(TimedOut(Stage(@, "mode3"), out, 3), 3,
                                                 resp.kind \in {"no_data", "data"})]
  /\ pc' = [pc EXCEPT ![r] = StageAfter("mode3", st'[r])]
  /\ UNCHANGED <<loc, res, store, prev, batch>>

\* final_has_data = ...; escalate_to_insights or persist_to_supabase
CircuitBreaker(r) ==
  /\ pc[r] = "breaker"
  /\ IF has_data_raises(st[r])
     THEN pc' = [pc EXCEPT ![r] = "raised"] /\ obs' = obs
     ELSE IF ~has_data(st[r])
     THEN pc' = [pc EXCEPT ![r] = "esc_insert"] /\ obs' = [obs EXCEPT ![r] = Stage(@, "escalate")]
     ELSE pc' = [pc EXCEPT ![r] = "persist_select"] /\ obs' = [obs EXCEPT ![r] = Stage(@, "persist")]
  /\ res' = [res EXCEPT ![r] = IF has_data_raises(st[r]) THEN Raised("AttributeError") ELSE @]
  /\ UNCHANGED <<st, loc, store, prev, batch>>

Failed(o, call) == [o EXCEPT !.failed = @ \cup {call}]

\* an escalation that lets the exception of the insert go
esc_after_insert_raises(ok) == IF ok THEN "esc_update" ELSE "raised"

\* the try/except around the insert: the update is reached either way
esc_after_insert(ok) == "esc_update"

\* escalate_to_insights: db.insert("insights", ...)
EscInsert(r, E) ==
  /\ pc[r] = "esc_insert"
  /\ \E oc \in E.call :
       IF oc = "ok"
       THEN /\ store' = insert_insight(store, [type |-> "ESCALATE", county |-> st[r].county_slug,
                                               error |-> st[r].errors, modes_attempted |-> <<1, 2, 3>>])
            /\ obs' = [obs EXCEPT ![r].inserted = @ + 1]
       ELSE /\ store' = store
            /\ obs' = [obs EXCEPT ![r] = Failed(@, "insert_insight")]
  /\ pc' = [pc EXCEPT ![r] = esc_after_insert("insert_insight" \notin obs'[r].failed)]
  /\ UNCHANGED <<st, loc, res, prev, batch>>

\* escalate_to_insights: db.update("jurisdictions", ..., {"data_completeness": -1})
EscUpdate(r, E) ==
  /\ pc[r] = "esc_update"
  /\ \E oc \in E.call :
       IF oc = "ok"
       THEN store' = update_completeness(store, st[r].county_name, -1) /\ obs' = obs
       ELSE store' = store /\ obs' = [obs EXCEPT ![r] = Failed(@, "update_completeness")]
  /\ st' = [st EXCEPT ![r].escalated = TRUE]
  /\ pc' = [pc EXCEPT ![r] = "finish"]
  /\ UNCHANGED <<loc, res, prev, batch>>


\* ------------------------------------------------------------------------
\* persist_to_supabase, store call by store call
\* ------------------------------------------------------------------------
\* db.select("jurisdictions", ...) and jurisdictions[0]; the filter names no
\* order, so any matching row may come first
PersistSelect(r, E) ==
  /\ pc[r] = "persist_select"
  /\ IF ~Truthy(st[r].extracted_data)
     THEN /\ pc' = [pc EXCEPT ![r] = "finish"]
          /\ UNCHANGED <<st, loc, obs>>
     ELSE \E oc \in E.call :
            IF oc = "fail"
            THEN /\ st' = [st EXCEPT ![r] = AddError(@, "persist_jurisdictions")]
                 /\ obs' = [obs EXCEPT ![r] = Failed(@, "select_jurisdictions")]
                 /\ pc' = [pc EXCEPT ![r] = "finish"]
                 /\ loc' = loc
            ELSE LET rows == select_jurisdictions(store, st[r].county_name)
                 IN IF rows = {}
                    THEN /\ st' = [st EXCEPT ![r] = AddError(@, "persist_no_jurisdictions")]
                         /\ pc' = [pc EXCEPT ![r] = "finish"]
                         /\ UNCHANGED <<loc, obs>>
                    ELSE \E j \in rows :
                           /\ loc' = [loc EXCEPT ![r].jurisdiction_id = j.id]
                           /\ pc' = [pc EXCEPT ![r] = AfterSelect(st[r], loc'[r])]
                           /\ UNCHANGED <<st, obs>>
  /\ res' = [res EXCEPT ![r] = IF pc'[r] = "raised" THEN Raised("KeyError") ELSE @]
  /\ UNCHANGED <<store, prev, batch>>

DistrictKeys(recs) == [i \in 1..Len(recs) |-> <<recs[i].jurisdiction_id, recs[i].code>>]
StandardKeys(recs) == [i \in 1..Len(recs) |-> <<recs[i].zoning_district_id, recs[i].standard_type>>]
UseKeys(recs) == [i \in 1..Len(recs) |-> <<recs[i].zoning_district_id, recs[i].use_name>>]

\* db.upsert("zoning_districts", district_records, on_conflict="jurisdiction_id,code")
PersistDistricts(r, E) ==
  /\ pc[r] = "persist_districts"
  /\ LET records == district_records(st[r].extracted_data, loc[r].jurisdiction_id)
     IN \E oc \in E.call, resp \in E.resp :
          IF oc = "ok"
          THEN LET up == upsert(store.zoning_districts, store.next_id, records, {"jurisdiction_id", "code"})
               IN /\ store' = [store EXCEPT !.zoning_districts = up.rows, !.next_id = up.next_id]
                  /\ loc' = [loc EXCEPT ![r].districts_upserted = upserted_count(resp, DistrictKeys(records))]
                  /\ UNCHANGED <<st, obs>>
          ELSE /\ st' = [st EXCEPT ![r] = AddError(@, "persist_districts")]
               /\ obs' = [obs EXCEPT ![r] = Failed(@, "upsert_districts")]
               /\ UNCHANGED <<store, loc>>
  /\ pc' = [pc EXCEPT ![r] = AfterDistricts(st[r], loc'[r])]
  /\ UNCHANGED <<res, prev, batch>>

\* db.select("zoning_districts", "jurisdiction_id=eq.{id}&select=id,code")
PersistReread(r, E) ==
  /\ pc[r] = "persist_reread"
  /\ \E oc \in E.call :
       IF oc = "ok"
       THEN LET rows == select_districts(store, loc[r].jurisdiction_id)
            IN /\ loc' = [loc EXCEPT ![r].db_districts = rows,
                                     ![r].district_id_map = district_id_map_of(rows)]
               /\ obs' = obs
       ELSE /\ loc' = loc
            /\ obs' = [obs EXCEPT ![r] = Failed(@, "select_districts")]
  /\ pc' = [pc EXCEPT ![r] = AfterReread(st[r], loc'[r])]
  /\ UNCHANGED <<st, res, store, prev, batch>>

Wrote(o, table, recs) ==
  [o EXCEPT !.wrote = @ \cup {[table |-> table, district_code |-> recs[i].district_code,
                               zoning_district_id |-> recs[i].zoning_district_id] : i \in 1..Len(recs)}]

\* db.upsert("zone_standards", standard_records, on_conflict="zoning_district_id,standard_type")
PersistStandards(r, E) ==
  /\ pc[r] = "persist_standards"
  /\ LET records == standard_records(loc[r].district_id_map, st[r].extracted_data.standards)
     IN \E oc \in E.call, resp \in E.resp :
          IF oc = "ok"
          THEN LET up == upsert(store.zone_standards, store.next_id, StdRows(records),
                                {"zoning_district_id", "standard_type"})
               IN /\ store' = [store EXCEPT !.zone_standards = up.rows, !.next_id = up.next_id]
                  /\ loc' = [loc EXCEPT ![r].standards_upserted = upserted_count(resp, StandardKeys(records))]
                  /\ obs' = [obs EXCEPT ![r] = Wrote(@, "zone_standards", records)]
                  /\ st' = st
          ELSE /\ st' = [st EXCEPT ![r] = AddError(@, "persist_standards")]
               /\ obs' = [obs EXCEPT ![r] = Failed(@, "upsert_standards")]
               /\ UNCHANGED <<store, loc>>
  /\ pc' = [pc EXCEPT ![r] = AfterStandards(st'[r], loc[r])]
  /\ UNCHANGED <<res, prev, batch>>

\* db.upsert("permitted_uses", use_records, on_conflict="zoning_district_id,use_name")
PersistUses(r, E) ==
  /\ pc[r] = "persist_uses"
  /\ LET records == use_records(loc[r].district_id_map, st[r].extracted_data.uses)
     IN \E oc \in E.call, resp \in E.resp :
          IF oc = "ok"
          THEN LET up == upsert(store.permitted_uses, store.next_id, UseRows(records),
                                {"zoning_district_id", "use_name"})
               IN /\ store' = [store EXCEPT !.permitted_uses = up.rows, !.next_id = up.next_id]
                  /\ loc' = [loc EXCEPT ![r].uses_upserted = upserted_count(resp, UseKeys(records))]
                  /\ obs' = [obs EXCEPT ![r] = Wrote(@, "permitted_uses", records)]
                  /\ st' = st
          ELSE /\ st' = [st EXCEPT ![r] = AddError(@, "persist_uses")]
               /\ obs' = [obs EXCEPT ![r] = Failed(@, "upsert_uses")]
               /\ UNCHANGED <<store, loc>>
  /\ pc' = [pc EXCEPT ![r] = AfterUses]
  /\ UNCHANGED <<res, prev, batch>>

\* db.update("jurisdictions", ..., {"skill_last_validated": today}), then the
\* three counts are stored in the state
PersistUpdate(r, E) ==
  /\ pc[r] = "persist_update"
  /\ \E oc \in E.call :
       IF oc = "ok"
       THEN store' = update_last_validated(store, st[r].county_name) /\ obs' = obs
       ELSE store' = store /\ obs' = [obs EXCEPT ![r] = Failed(@, "update_last_validated")]
  /\ st' = [st EXCEPT ![r].districts_upserted = loc[r].districts_upserted,
                      ![r].standards_upserted = loc[r].standards_upserted,
                      ![r].uses_upserted = loc[r].uses_upserted]
  /\ pc' = [pc EXCEPT ![r] = "finish"]
  /\ UNCHANGED <<loc, res, prev, batch>>

\* result = {...}; return result
Finish(r) ==
  /\ pc[r] = "finish"
  /\ res' = [res EXCEPT ![r] = ResultOf(st[r])]
  /\ pc' = [pc EXCEPT ![r] = "done"]
  /\ UNCHANGED <<st, loc, obs, store, prev, batch>>

\* ------------------------------------------------------------------------
\* Spec: one caller invoking agent.run
\* ------------------------------------------------------------------------
Counties == {BAY, BAYS, POLK}
Configs ==
  {Config(n, a, u[1], u[2]) : n \in Counties, a \in BOOLEAN,
                              u \in {<<"", "">>, <<MuniCfg, "">>, <<"", GisCfg>>}}

Init ==
  /\ \E c \in Configs : st = [r \in {1} |-> NewState(c)]
  /\ pc = [r \in {1} |-> "mode1"]
  /\ loc = [r \in {1} |-> NoLoc]
  /\ res = [r \in {1} |-> NoResult]
  /\ obs = [r \in {1} |-> NoObs]
  /\ store = Store0
  /\ prev = NoPrev
  /\ batch = NoBatch

Next ==
  \/ \E r \in Runs : Mode1(r, FullEnv)
  \/ \E r \in Runs : Mode2(r, FullEnv)
  \/ \E r \in Runs : Gate3(r)
  \/ \E r \in Runs : Mode3(r, FullEnv)
  \/ \E r \in Runs : CircuitBreaker(r)
  \/ \E r \in Runs : EscInsert(r, FullEnv)
  \/ \E r \in Runs : EscUpdate(r, FullEnv)
  \/ \E r \in Runs : PersistSelect(r, FullEnv)
  \/ \E r \in Runs : PersistDistricts(r, FullEnv)
  \/ \E r \in Runs : PersistReread(r, FullEnv)
  \/ \E r \in Runs : PersistStandards(r, FullEnv)
  \/ \E r \in Runs : PersistUses(r, FullEnv)
  \/ \E r \in Runs : PersistUpdate(r, FullEnv)
  \/ \E r \in Runs : Finish(r)

Spec == Init /\ [][Next]_vars


\* ------------------------------------------------------------------------
\* SpecDiscovery: Mode 1 and Mode 2 of one run, with the answers of the
\* search engine kept beside the run
\* ------------------------------------------------------------------------
\* prev holds the arguments of the run, the answers to the queries and the
\* locals with which the query loop was left
Discover(r, E) ==
  \E crash \in E.crash, qs \in [1..NumQueries -> E.query] :
    /\ Mode1Step(r, crash, qs)
    /\ prev' = [ran |-> FALSE, crash |-> crash, queries |-> qs, before |-> st[r],
                 issued |-> IF crash THEN <<>> ELSE m1_loop(st[r], qs).issued,
                 found_url |-> IF crash THEN "" ELSE m1_loop(st[r], qs).found_url]

DiscoveryEnv ==
  [crash |-> BOOLEAN, query |-> QueryOutcomes, fetch |-> {"ok", "error"},
   llm |-> {Llm("json", PExample), Llm("unparsable", Absent)}]

NextDiscovery ==
  \/ \E r \in Runs : Discover(r, DiscoveryEnv)
  \/ \E r \in Runs : Mode2(r, DiscoveryEnv)

SpecDiscovery == Init /\ [][NextDiscovery]_vars

\* ------------------------------------------------------------------------
\* records of the payload that the reconciler did not turn into a row
Dropped(s, l) ==
  LET ed == s.extracted_data
  IN Cardinality({i \in 1..Len(ed.standards) : ~Resolves(l.district_id_map, ed.standards[i].district_code)})
     + Cardinality({i \in 1..Len(ed.uses) : ~Resolves(l.district_id_map, ed.uses[i].district_code)})

RowCounts(db) ==
  [districts |-> Cardinality(db.zoning_districts),
   standards |-> Cardinality(db.zone_standards),
   uses |-> Cardinality(db.permitted_uses)]

Summary(r) ==
  [ran |-> TRUE,
   outcome |-> pc[r],
   extracted |-> st[r].extracted_data,
   jurisdiction_id |-> loc[r].jurisdiction_id,
   failed |-> obs[r].failed,
   stages |-> obs[r].stages,
   res |-> res[r],
   mapped |-> DOMAIN loc[r].district_id_map # {},
   dropped |-> Dropped(st[r], loc[r]),
   rows |-> RowCounts(store)]

\* the strategies answer with a payload; the store may fail any call
TwiceEnv ==
  [crash |-> {FALSE}, query |-> {"none"}, fetch |-> {"ok"},
   llm |-> {Llm("unparsable", Absent)} \cup {Llm("json", v) : v \in JsonValues},
   modal |-> {Modal("http_error", Absent)} \cup {Modal("data", v) : v \in Payloads},
   call |-> {"ok", "fail"}, resp |-> {"rows", "empty"}]

InitTwice ==
  /\ \E n \in Counties : st = [r \in {1} |-> NewState(Config(n, FALSE, MuniCfg, ""))]
  /\ pc = [r \in {1} |-> "mode1"]
  /\ loc = [r \in {1} |-> NoLoc]
  /\ res = [r \in {1} |-> NoResult]
  /\ obs = [r \in {1} |-> NoObs]
  /\ store = Store0
  /\ prev = NoPrev
  /\ batch = NoBatch

\* agent.run is called again with the arguments of the run that just ended
Again(r) ==
  /\ pc[r] \in {"done", "raised"}
  /\ ~prev.ran
  /\ prev' = Summary(r)
  /\ st' = [st EXCEPT ![r] = NewState(Config(st[r].county_name, st[r].anti_scrape, MuniCfg, ""))]
  /\ pc' = [pc EXCEPT ![r] = "mode1"]
  /\ loc' = [loc EXCEPT ![r] = NoLoc]
  /\ res' = [res EXCEPT ![r] = NoResult]
  /\ obs' = [obs EXCEPT ![r] = NoObs]
  /\ UNCHANGED <<store, batch>>

NextTwice ==
  \/ \E r \in Runs : Mode1(r, TwiceEnv)
  \/ \E r \in Runs : Mode2(r, TwiceEnv)
  \/ \E r \in Runs : Gate3(r)
  \/ \E r \in Runs : Mode3(r, TwiceEnv)
  \/ \E r \in Runs : CircuitBreaker(r)
  \/ \E r \in Runs : EscInsert(r, TwiceEnv)
  \/ \E r \in Runs : EscUpdate(r, TwiceEnv)
  \/ \E r \in Runs : PersistSelect(r, TwiceEnv)
  \/ \E r \in Runs : PersistDistricts(r, TwiceEnv)
  \/ \E r \in Runs : PersistReread(r, TwiceEnv)
  \/ \E r \in Runs : PersistStandards(r, TwiceEnv)
  \/ \E r \in Runs : PersistUses(r, TwiceEnv)
  \/ \E r \in Runs : PersistUpdate(r, TwiceEnv)
  \/ \E r \in Runs : Finish(r)
  \/ \E r \in Runs : Again(r)

SpecTwice == InitTwice /\ [][NextTwice]_vars


\* ------------------------------------------------------------------------
\* SpecBatch: run_batch(agent, counties, max_concurrent)
\* ------------------------------------------------------------------------
\* "async with semaphore": a task passes when the counter is positive
sem_never_blocks(sem) == TRUE

sem_can_acquire(sem) == sem > 0

\* a gather that keeps results in the order in which the tasks end
gather_by_completion(results, i, r) ==
  LET free == {k \in DOMAIN results : results[k].kind = "none"}
      k == CHOOSE x \in free : \A y \in free : x <= y
  IN [results EXCEPT ![k] = r]

\* asyncio.gather(*tasks, return_exceptions=True): the result or the
\* exception of task i is element i of the list
gather_collect(results, i, r) == [results EXCEPT ![i] = r]

\* f"county_{i}"
CountyIndex(i) == <<"county_", i - 1>>

\* a conversion that marks every record failed once one task has failed
final_of_all_failed(counties, results) ==
  [i \in 1..Len(counties) |->
     IF \E k \in 1..Len(counties) : results[k].kind = "exception"
     THEN [kind |-> "error_dict", county |-> counties[i].county_name, error |-> "Exception",
           escalated |-> TRUE, districts_upserted |-> 0, standards_upserted |-> 0, uses_upserted |-> 0]
     ELSE results[i]]

\* the loop "for i, r in enumerate(results)" that builds final
final_of(counties, results) ==
  [i \in 1..Len(counties) |->
     IF results[i].kind = "exception"
     THEN [kind |-> "error_dict",
           county |-> IF counties[i].county_name = NoName THEN CountyIndex(i) ELSE counties[i].county_name,
           error |-> results[i].error,
           escalated |-> TRUE,
           districts_upserted |-> 0,
           standards_upserted |-> 0,
           uses_upserted |-> 0]
     ELSE results[i]]

\* the pipelines of a batch answer in one of three ways
BatchEnv ==
  [crash |-> {FALSE}, query |-> {"none"}, fetch |-> {"ok"},
   llm |-> {Llm("json", PTwo), Llm("json", NonObj), Llm("unparsable", Absent)},
   modal |-> {Modal("http_error", Absent)},
   call |-> {"ok"}, resp |-> {"rows"}]

NameAt(i) == CASE i % 3 = 1 -> BAY [] i % 3 = 2 -> BAYS [] OTHER -> POLK

InitBatch ==
  /\ \E n \in 0..MaxCounties, m \in (-1)..MaxConcurrent :
       \* at most one config lacks its county_name
       \E missing \in 0..n :
         /\ batch = [pc |-> "start",
                     counties |-> [i \in 1..n |-> Config(IF i = missing THEN NoName ELSE NameAt(i), FALSE, MuniCfg, "")],
                     max_concurrent |-> m,
                     sem |-> 0,
                     results |-> [i \in 1..n |-> NoResult],
                     order |-> <<>>,
                     final |-> <<>>]
         /\ pc = [r \in 1..n |-> "new"]
         /\ st = [r \in 1..n |-> NewState(Config(NoName, FALSE, "", ""))]
         /\ loc = [r \in 1..n |-> NoLoc]
         /\ res = [r \in 1..n |-> NoResult]
         /\ obs = [r \in 1..n |-> NoObs]
  /\ store = Store0
  /\ prev = NoPrev

\* semaphore = asyncio.Semaphore(max_concurrent); tasks = [run_one(c) for c in counties]
BatchStart ==
  /\ batch.pc = "start"
  /\ IF batch.max_concurrent < 0
     THEN /\ batch' = [batch EXCEPT !.pc = "raised"]
          /\ pc' = pc
     ELSE /\ batch' = [batch EXCEPT !.pc = "gather", !.sem = batch.max_concurrent]
          /\ pc' = [r \in Runs |-> "wait"]
  /\ UNCHANGED <<st, loc, res, obs, store, prev>>

\* run_one: the semaphore is taken and agent.run is called with the keys of
\* the config; a config without county_name raises KeyError
Acquire(r) ==
  /\ batch.pc = "gather"
  /\ pc[r] = "wait"
  /\ sem_can_acquire(batch.sem)
  /\ batch' = [batch EXCEPT !.sem = @ - 1]
  /\ IF batch.counties[r].county_name = NoName
     THEN /\ pc' = [pc EXCEPT ![r] = "raised"]
          /\ res' = [res EXCEPT ![r] = Raised("KeyError")]
          /\ st' = st
     ELSE /\ pc' = [pc EXCEPT ![r] = "mode1"]
          /\ st' = [st EXCEPT ![r] = NewState(batch.counties[r])]
          /\ res' = res
  /\ UNCHANGED <<loc, obs, store, prev>>

\* the task leaves "async with semaphore" and gather keeps what it ended with
TaskEnd(r) ==
  /\ batch.pc = "gather"
  /\ pc[r] \in {"done", "raised"}
  /\ batch' = [batch EXCEPT !.sem = @ + 1, !.results = gather_collect(@, r, res[r]),
                            !.order = Append(@, r)]
  /\ pc' = [pc EXCEPT ![r] = "ended"]
  /\ UNCHANGED <<st, loc, res, obs, store, prev>>

\* gather returns once every task has ended; final is built and returned
BatchReturn ==
  /\ batch.pc = "gather"
  /\ \A r \in Runs : pc[r] = "ended"
  /\ batch' = [batch EXCEPT !.pc = "returned", !.final = final_of(batch.counties, batch.results)]
  /\ UNCHANGED <<pc, st, loc, res, obs, store, prev>>

NextBatch ==
  \/ BatchStart
  \/ \E r \in Runs : Acquire(r)
  \/ \E r \in Runs : Mode1(r, BatchEnv)
  \/ \E r \in Runs : Mode2(r, BatchEnv)
  \/ \E r \in Runs : Gate3(r)
  \/ \E r \in Runs : Mode3(r, BatchEnv)
  \/ \E r \in Runs : CircuitBreaker(r)
  \/ \E r \in Runs : EscInsert(r, BatchEnv)
  \/ \E r \in Runs : EscUpdate(r, BatchEnv)
  \/ \E r \in Runs : PersistSelect(r, BatchEnv)
  \/ \E r \in Runs : PersistDistricts(r, BatchEnv)
  \/ \E r \in Runs : PersistReread(r, BatchEnv)
  \/ \E r \in Runs : PersistStandards(r, BatchEnv)
  \/ \E r \in Runs : PersistUses(r, BatchEnv)
  \/ \E r \in Runs : PersistUpdate(r, BatchEnv)
  \/ \E r \in Runs : Finish(r)
  \/ \E r \in Runs : TaskEnd(r)
  \/ BatchReturn

SpecBatch == InitBatch /\ [][NextBatch]_vars

\* the event loop keeps running whatever task or callback is ready
SpecBatchFair == InitBatch /\ [][NextBatch]_vars /\ WF_vars(NextBatch)


\* ------------------------------------------------------------------------
\* SpecPair: run_batch over two counties whose strategies can be cut off by
\* their timeouts
\* ------------------------------------------------------------------------
PairEnv ==
  [crash |-> {FALSE}, query |-> {"none", "cancel"}, fetch |-> {"ok", "cancel"},
   llm |-> {Llm("json", PDrop), Llm("json", PTwo), Llm("cancel", Absent)},
   modal |-> {Modal("http_error", Absent), Modal("cancel", Absent)},
   call |-> {"ok"}, resp |-> {"rows"}]

InitPair ==
  /\ \E m \in 1..MaxConcurrent :
       batch = [pc |-> "start",
                counties |-> <<Config(BAY, FALSE, MuniCfg, ""), Config(BAYS, FALSE, MuniCfg, "")>>,
                max_concurrent |-> m,
                sem |-> 0,
                results |-> [i \in 1..2 |-> NoResult],
                order |-> <<>>,
                final |-> <<>>]
  /\ pc = [r \in 1..2 |-> "new"]
  /\ st = [r \in 1..2 |-> NewState(Config(NoName, FALSE, "", ""))]
  /\ loc = [r \in 1..2 |-> NoLoc]
  /\ res = [r \in 1..2 |-> NoResult]
  /\ obs = [r \in 1..2 |-> NoObs]
  /\ store = Store0
  /\ prev = NoPrev

NextPair ==
  \/ BatchStart
  \/ \E r \in Runs : Acquire(r)
  \/ \E r \in Runs : Mode1(r, PairEnv)
  \/ \E r \in Runs : Mode2(r, PairEnv)
  \/ \E r \in Runs : Gate3(r)
  \/ \E r \in Runs : Mode3(r, PairEnv)
  \/ \E r \in Runs : CircuitBreaker(r)
  \/ \E r \in Runs : EscInsert(r, PairEnv)
  \/ \E r \in Runs : EscUpdate(r, PairEnv)
  \/ \E r \in Runs : PersistSelect(r, PairEnv)
  \/ \E r \in Runs : PersistDistricts(r, PairEnv)
  \/ \E r \in Runs : PersistReread(r, PairEnv)
  \/ \E r \in Runs : PersistStandards(r, PairEnv)
  \/ \E r \in Runs : PersistUses(r, PairEnv)
  \/ \E r \in Runs : PersistUpdate(r, PairEnv)
  \/ \E r \in Runs : Finish(r)
  \/ \E r \in Runs : TaskEnd(r)
  \/ BatchReturn

SpecPair == InitPair /\ [][NextPair]_vars


\* ------------------------------------------------------------------------
\* SpecRoute: route_with_tool_search (tool_search_integration.py)
\* ------------------------------------------------------------------------
\* the longest "counties" list of a request
MaxRequestCounties == 6

\* SUPPORTED_MODELS["default"] and SUPPORTED_MODELS["complex"]
SUPPORTED_MODELS == [default |-> "claude-sonnet-4-5-20250929", complex |-> "claude-opus-4-6"]

\* the values of request["needs_county_tools"]; "absent" is a request
\* without the key, for which .get returns False
NeedsValues == {"absent", "false", "true"}

\* the requests: a "counties" list (a request without the key has the empty
\* list of .get) and the needs_county_tools value
Requests ==
  [counties : UNION {[1..k -> {"brevard", "duval"}] : k \in 0..MaxRequestCounties},
   needs_county_tools : NeedsValues]

\* model None and no "variant" key are the string "None"
route_with_tool_search(request) ==
  LET county_count == Len(request.counties)
      needs_county_tools == request.needs_county_tools = "true"
  IN IF ~needs_county_tools
     THEN [kind |-> "route", use_tool_search |-> FALSE, model |-> "None", variant |-> "None"]
     ELSE IF county_count > 5
     THEN [kind |-> "route", use_tool_search |-> TRUE, model |-> SUPPORTED_MODELS.complex, variant |-> "bm25"]
     ELSE [kind |-> "route", use_tool_search |-> TRUE, model |-> SUPPORTED_MODELS.default, variant |-> "bm25"]

\* st[1] is the request, res[1] the decision that is returned
InitRoute ==
  /\ \E q \in Requests : st = [r \in {1} |-> q]
  /\ pc = [r \in {1} |-> "route"]
  /\ res = [r \in {1} |-> NoResult]
  /\ loc = [r \in {1} |-> NoLoc]
  /\ obs = [r \in {1} |-> NoObs]
  /\ store = Store0
  /\ prev = NoPrev
  /\ batch = NoBatch

Route(r) ==
  /\ pc[r] = "route"
  /\ res' = [res EXCEPT ![r] = route_with_tool_search(st[r])]
  /\ pc' = [pc EXCEPT ![r] = "routed"]
  /\ UNCHANGED <<st, loc, obs, store, prev, batch>>

NextRoute == \E r \in Runs : Route(r)

SpecRoute == InitRoute /\ [][NextRoute]_vars


\* ------------------------------------------------------------------------
\* SpecNodes: the four MCP workflow nodes (mcp_integration.py) on top of
\* CountyRouterMCP (county_router_mcp.py)
\* ------------------------------------------------------------------------
\* what a CountyRouterMCP method returns: a failure record carries "error"
\* and no "data" key (data "none"); a success record carries the parsed
\* response, whose shape is one of the data kinds
RouterResult(success, data, error) ==
  [present |-> TRUE, success |-> success, data |-> data, error |-> error]

\* a key of the workflow state that holds no router result
NoRouterResult == [present |-> FALSE, success |-> FALSE, data |-> "none", error |-> ""]

\* call_deepseek without a client, call_deepseek whose API call raised, and
\* a response that parsed as: no JSON, {"data": [p, ...]}, {"data": []},
\* {"results": [...]}, {"reports": [...]}, overall_status PASS, a QA report
\* with critical failures, a QA report with warnings only
RouterResults ==
  {RouterResult(FALSE, "none", "DEEPSEEK_API_KEY not configured"),
   RouterResult(FALSE, "none", "APIError")}
    \cup {RouterResult(TRUE, d, "") :
            d \in {"raw", "properties", "empty", "results", "reports", "pass", "critical", "warnings"}}

\* the keys of WorkflowState that the nodes read and write; mcp_metrics and
\* buy_recommendations say whether the key is set
NewWorkflowState(analysis, buy) ==
  [county_name |-> "Brevard",
   scraping_results |-> NoRouterResult,
   analysis_results |-> analysis,
   report_results |-> NoRouterResult,
   qa_results |-> NoRouterResult,
   buy_recommendations |-> buy,
   mcp_metrics |-> FALSE,
   next_node |-> "scraper",
   error |-> ""]

\* how a node ends: it returns the state or raises, after the router call
\* was made (called) or before it
NodeOut(status, called, s) == [status |-> status, called |-> called, state |-> s]

\* state["scraping_results"]["data"]["data"] can be read
HasProperties(s) ==
  s.scraping_results.present /\ s.scraping_results.data \in {"properties", "empty"}

scraper_node_mcp(s, result) ==
  LET s1 == [s EXCEPT !.scraping_results = result, !.mcp_metrics = TRUE]
  IN IF result.success
     THEN NodeOut("return", TRUE, [s1 EXCEPT !.next_node = "qa_validation"])
     ELSE NodeOut("return", TRUE, [s1 EXCEPT !.next_node = "error_handler", !.error = result.error])

analysis_node_mcp(s, result) ==
  IF ~HasProperties(s) THEN NodeOut("raised", FALSE, s)
  \* min() of an empty sequence
  ELSE IF s.scraping_results.data = "empty" THEN NodeOut("raised", FALSE, s)
  ELSE LET s1 == [s EXCEPT !.analysis_results = result]
       IN IF ~s.mcp_metrics THEN NodeOut("raised", TRUE, s1)
          ELSE IF result.success
          THEN IF result.data = "results"
               THEN NodeOut("return", TRUE, [s1 EXCEPT !.buy_recommendations = TRUE,
                                                        !.next_node = "report_generation"])
               ELSE NodeOut("raised", TRUE, s1)
          ELSE NodeOut("return", TRUE, [s1 EXCEPT !.next_node = "error_handler", !.error = result.error])

report_node_mcp(s, result) ==
  IF ~s.buy_recommendations THEN NodeOut("raised", FALSE, s)
  ELSE LET s1 == [s EXCEPT !.report_results = result]
       IN IF ~s.mcp_metrics THEN NodeOut("raised", TRUE, s1)
          ELSE IF result.success
          THEN IF result.data = "reports"
               THEN NodeOut("return", TRUE, [s1 EXCEPT !.next_node = "notification"])
               ELSE NodeOut("raised", TRUE, s1)
          ELSE NodeOut("return", TRUE, [s1 EXCEPT !.next_node = "error_handler", !.error = result.error])

qa_node_mcp(s, result) ==
  IF ~s.scraping_results.present \/ ~s.analysis_results.present \/ ~HasProperties(s)
  THEN NodeOut("raised", FALSE, s)
  ELSE LET s1 == [s EXCEPT !.qa_results = result]
       IN IF ~s.mcp_metrics THEN NodeOut("raised", TRUE, s1)
          \* result["data"]["overall_status"]
          ELSE CASE result.data \in {"pass", "warnings"} ->
                      NodeOut("return", TRUE, [s1 EXCEPT !.next_node = "analysis"])
                 [] result.data = "critical" ->
                      NodeOut("return", TRUE, [s1 EXCEPT !.next_node = "error_handler",
                                                          !.error = "QA critical failures"])
                 [] OTHER -> NodeOut("raised", TRUE, s1)

\* the workflow starts at the scraper; the state may hold the analysis
\* results and the buy recommendations of an earlier cycle
InitNodes ==
  /\ \E analysis \in {NoRouterResult, RouterResult(TRUE, "results", "")}, buy \in BOOLEAN :
       st = [r \in {1} |-> NewWorkflowState(analysis, buy)]
  /\ pc = [r \in {1} |-> "scraper"]
  /\ res = [r \in {1} |-> NoResult]
  /\ loc = [r \in {1} |-> NoLoc]
  /\ obs = [r \in {1} |-> [node |-> "none", called |-> FALSE, result |-> NoRouterResult]]
  /\ store = Store0
  /\ prev = NoPrev
  /\ batch = NoBatch

\* the graph calls the node named by next_node and keeps what it returns;
\* an exception of the node leaves the graph
NodeStep(r, name, out, result) ==
  /\ pc[r] = name
  /\ st' = [st EXCEPT ![r] = out.state]
  /\ pc' = [pc EXCEPT ![r] = IF out.status = "raised" THEN "raised" ELSE out.state.next_node]
  /\ res' = [res EXCEPT ![r] = IF out.status = "raised" THEN Raised("KeyError") ELSE @]
  /\ obs' = [obs EXCEPT ![r] = [node |-> name, called |-> out.called, result |-> result]]
  /\ UNCHANGED <<loc, store, prev, batch>>

ScraperNode(r) ==
  \E result \in RouterResults : NodeStep(r, "scraper", scraper_node_mcp(st[r], result), result)

QaNode(r) ==
  \E result \in RouterResults : NodeStep(r, "qa_validation", qa_node_mcp(st[r], result), result)

AnalysisNode(r) ==
  \E result \in RouterResults : NodeStep(r, "analysis", analysis_node_mcp(st[r], result), result)

ReportNode(r) ==
  \E result \in RouterResults : NodeStep(r, "report_generation", report_node_mcp(st[r], result), result)

NextNodes ==
  \/ \E r \in Runs : ScraperNode(r)
  \/ \E r \in Runs : QaNode(r)
  \/ \E r \in Runs : AnalysisNode(r)
  \/ \E r \in Runs : ReportNode(r)

SpecNodes == InitNodes /\ [][NextNodes]_vars


\* ------------------------------------------------------------------------
\* Properties
\* ------------------------------------------------------------------------
Count(seq, x) == Cardinality({i \in 1..Len(seq) : seq[i] = x})
Ran(r, stage) == Count(obs[r].stages, stage) > 0

\* the slot holds no district and no standard
SlotEmpty(s) == s.extracted_data.districts = <<>> /\ s.extracted_data.standards = <<>>

Matching(r) == {j \in store.jurisdictions : ILike(st[r].county_name, j.county)}

\* C1 as stated: every run that returns with the slot empty of districts and
\* standards has written exactly one insights row, has set the completeness
\* of its jurisdictions to -1 and returns escalated=true, whatever the store
\* calls of the escalation did.
C1_EscalationAlwaysWritten ==
  \A r \in Runs :
    (pc[r] = "done" /\ SlotEmpty(st[r])) =>
      /\ Len(store.insights) = 1
      /\ \A j \in Matching(r) : j.data_completeness = -1
      /\ res[r].escalated

\* C1 amended: a run that returns with the slot empty of districts and
\* standards went through escalate_to_insights once and not through
\* persist_to_supabase, returns escalated=true and zero counts, has written
\* one insights row when the insert succeeded and none when it failed, and
\* has set the completeness of the county's jurisdictions to -1 when the
\* update succeeded and left it alone when it failed.
C1_EscalationOnNoData ==
  \A r \in Runs :
    (pc[r] = "done" /\ SlotEmpty(st[r])) =>
      /\ Count(obs[r].stages, "escalate") = 1
      /\ ~Ran(r, "persist")
      /\ res[r].escalated
      /\ res[r].errors = st[r].errors
      /\ Len(store.insights) = (IF "insert_insight" \in obs[r].failed THEN 0 ELSE 1)
      /\ \A i \in 1..Len(store.insights) :
           store.insights[i].county = st[r].county_slug /\ store.insights[i].error = st[r].errors
      /\ "update_completeness" \notin obs[r].failed => \A j \in Matching(r) : j.data_completeness = -1
      /\ "update_completeness" \in obs[r].failed => store.jurisdictions = Store0.jurisdictions

C1_Witness ==
  \E r \in Runs :
    /\ pc[r] = "done" /\ SlotEmpty(st[r]) /\ res[r].escalated
    /\ Len(store.insights) = 1
    /\ Cardinality(Matching(r)) = 2
    /\ \A j \in Matching(r) : j.data_completeness = -1

\* C2: in a run whose Strategy 2 left a payload with at least one district
\* and whose anti_scrape flag is false, Strategy 3 is never invoked.
C2_NoMode3WhenDistricts ==
  \A r \in Runs :
    (Ran(r, "mode2") /\ obs[r].after2.districts # <<>> /\ ~st[r].anti_scrape) => ~Ran(r, "mode3")

C2_Witness ==
  \E r \in Runs :
    /\ pc[r] = "done" /\ obs[r].after2 = PExample /\ ~st[r].anti_scrape
    /\ ~Ran(r, "mode3") /\ Ran(r, "persist")
    /\ res[r].districts_upserted = 1 /\ ~res[r].escalated

\* C3 as stated: a run with anti_scrape=true that has ended has invoked
\* Strategy 3 exactly once.
C3_Mode3OnceWhenAntiScrape ==
  \A r \in Runs :
    (st[r].anti_scrape /\ pc[r] \in {"done", "raised"}) => Count(obs[r].stages, "mode3") = 1

\* C4 as stated: run never raises to its caller.
C4_RunNeverRaises == \A r \in Runs : pc[r] # "raised"

\* C5: every Standard or PermittedUse row that persist_to_supabase writes
\* carries the identifier of a District row that the re-read found in the
\* store for the resolved jurisdiction, and that row's code is the
\* district_code of the payload record.
C5_WritesResolve ==
  \A r \in Runs :
    \A w \in obs[r].wrote :
      \E d \in loc[r].db_districts :
        /\ d.jurisdiction_id = loc[r].jurisdiction_id
        /\ d.code = w.district_code
        /\ d.id = w.zoning_district_id
        /\ d \in store.zoning_districts

C5_Witness ==
  \E r \in Runs :
    /\ pc[r] = "done" /\ st[r].extracted_data = PDrop
    /\ \E w \in obs[r].wrote : w.table = "zone_standards" /\ w.district_code = R1
    /\ Dropped(st[r], loc[r]) = 2
    /\ Cardinality(store.zone_standards) = 1


\* both runs of SpecTwice returned after a persist_to_supabase whose store
\* calls all succeeded and whose re-read found districts to resolve against
BothPersisted(r) ==
  /\ prev.ran /\ prev.outcome = "done" /\ pc[r] = "done"
  /\ Count(prev.stages, "persist") = 1 /\ Ran(r, "persist")
  /\ prev.failed = {} /\ obs[r].failed = {}
  /\ prev.mapped /\ DOMAIN loc[r].district_id_map # {}

\* C6 as stated: the result lets the caller read how many Standard and
\* PermittedUse records the reconciler dropped, so two runs that return the
\* same result have dropped the same number of records.
C6_DropsReadable ==
  \A r \in Runs :
    (BothPersisted(r) /\ prev.res = res[r]) => prev.dropped = Dropped(st[r], loc[r])

SameAgain(r) ==
  /\ prev.ran /\ pc[r] \in {"done", "raised"}
  /\ prev.extracted = st[r].extracted_data
  /\ prev.jurisdiction_id = loc[r].jurisdiction_id

NoDuplicateKeys ==
  /\ \A a, b \in store.zoning_districts :
       (a.jurisdiction_id = b.jurisdiction_id /\ a.code = b.code) => a = b
  /\ \A a, b \in store.zone_standards :
       (a.zoning_district_id = b.zoning_district_id /\ a.standard_type = b.standard_type) => a = b
  /\ \A a, b \in store.permitted_uses :
       (a.zoning_district_id = b.zoning_district_id /\ a.use_name = b.use_name) => a = b

N == Len(batch.counties)
RunStages ==
  {"mode1", "mode2", "gate3", "mode3", "breaker", "esc_insert", "esc_update", "persist_select",
   "persist_districts", "persist_reread", "persist_standards", "persist_uses", "persist_update", "finish"}
InRun == {r \in Runs : pc[r] \in RunStages}
NameOf(i) == IF batch.counties[i].county_name = NoName THEN CountyIndex(i) ELSE batch.counties[i].county_name

\* C8: when run_batch returns, it returns one record per config; the record
\* of a task that raised has escalated=true, zero counts and the text of the
\* error, and the record of every other task is the result that task's run
\* returned, unchanged.
C8_BatchIsolatesFailure ==
  batch.pc = "returned" =>
    /\ Len(batch.final) = N
    /\ \A i \in 1..N :
         IF res[i].kind = "exception"
         THEN /\ batch.final[i].kind = "error_dict"
              /\ batch.final[i].escalated
              /\ batch.final[i].districts_upserted = 0
              /\ batch.final[i].standards_upserted = 0
              /\ batch.final[i].uses_upserted = 0
              /\ batch.final[i].error = res[i].error
         ELSE /\ batch.final[i].kind = "result"
              /\ batch.final[i] = ResultOf(st[i])

C8_Witness ==
  /\ batch.pc = "returned" /\ N = 3 /\ batch.max_concurrent = 2
  /\ Cardinality({i \in 1..N : res[i].kind = "exception"}) = 1
  /\ \E i \in 1..N : res[i] = Raised("AttributeError")
  /\ \E i \in 1..N : batch.final[i].kind = "result" /\ ~batch.final[i].escalated
                     /\ batch.final[i].districts_upserted = 2
  /\ \E i \in 1..N : batch.final[i].kind = "result" /\ batch.final[i].escalated

\* C9: the list returned by run_batch has the record of counties[i] at
\* index i, in whatever order the tasks ended.
C9_ResultsByIndex ==
  batch.pc = "returned" =>
    \A i \in 1..N :
      /\ batch.final[i].county = NameOf(i)
      /\ batch.results[i] = res[i]

C9_Witness ==
  /\ batch.pc = "returned" /\ N = 3
  /\ batch.order = <<3, 1, 2>>
  /\ \A i \in 1..N : batch.final[i].kind = "result" /\ batch.final[i].county = NameAt(i)

\* C10: the number of pipelines that have entered agent.run and not left it
\* never exceeds max_concurrent.
C10_AtMostMaxConcurrent ==
  batch.pc \in {"gather", "returned"} => Cardinality(InRun) <= batch.max_concurrent

C10_Witness ==
  /\ batch.pc = "gather" /\ batch.max_concurrent = 2 /\ N = 3
  /\ Cardinality(InRun) = 2
  /\ \E r \in Runs : pc[r] = "wait"

\* the stages a run can have gone through, in the order of the body of run
StageOrders ==
  {<<"mode1", "mode2", "escalate">>, <<"mode1", "mode2", "persist">>,
   <<"mode1", "mode2", "mode3", "escalate">>, <<"mode1", "mode2", "mode3", "persist">>}
IsPrefix(a, b) == Len(a) <= Len(b) /\ SubSeq(b, 1, Len(a)) = a

\* the stages that must lie behind a run that stands at pc
Behind(p) ==
  CASE p \in {"new", "wait", "mode1"} -> {<<>>}
    [] p = "mode2" -> {<<"mode1">>}
    [] p = "gate3" -> {<<"mode1", "mode2">>}
    \* an exception left run_one, has_data, final_has_data or the reconciler
    [] p = "raised" -> {<<>>, <<"mode1", "mode2">>, <<"mode1", "mode2", "mode3">>,
                        <<"mode1", "mode2", "persist">>, <<"mode1", "mode2", "mode3", "persist">>}
    [] p = "mode3" -> {<<"mode1", "mode2">>}
    [] p = "breaker" -> {<<"mode1", "mode2">>, <<"mode1", "mode2", "mode3">>}
    [] OTHER -> StageOrders

\* C11: the stages of a run happen in the order Strategy 1, Strategy 2,
\* Strategy 3 (when its condition holds), circuit-breaker decision, then
\* persistence or escalation: each stage is entered once, only after the
\* stage before it has returned or was cut off, and a run stands in one
\* stage at a time.
C11_StagesInOrder ==
  \A r \in Runs :
    /\ \E o \in StageOrders : IsPrefix(obs[r].stages, o)
    /\ obs[r].stages \in Behind(pc[r])

C11_Witness ==
  \E r \in Runs :
    /\ pc[r] = "done"
    /\ obs[r].stages = <<"mode1", "mode2", "mode3", "persist">>
    /\ obs[r].timed_out = {1}
    /\ res[r].districts_upserted = 1

TimeoutTag(n) == CASE n = 1 -> "mode1_timeout" [] n = 2 -> "mode2_timeout" [] OTHER -> "mode3_timeout"
HasError(s, tag) == \E i \in 1..Len(s.errors) : s.errors[i] = tag

\* the stage that follows Strategy n has been entered
Continued(r, n) ==
  CASE n = 1 -> pc[r] = "mode2" \/ Ran(r, "mode2")
    [] n = 2 -> pc[r] \in {"gate3", "mode3"} \/ Ran(r, "mode3")
    [] OTHER -> pc[r] = "breaker" \/ Ran(r, "escalate") \/ Ran(r, "persist")

TimeoutRecorded ==
  \A r \in Runs : \A n \in obs[r].timed_out :
    /\ HasError(st[r], TimeoutTag(n))
    /\ st[r].failures >= Cardinality(obs[r].timed_out)
    /\ Continued(r, n)

\* the step in which the timeout of Strategy n fires in run r
TimeoutFires(r, n) == n \in obs'[r].timed_out /\ n \notin obs[r].timed_out

TimeoutStep ==
  \A r \in Runs : \A n \in 1..3 :
    TimeoutFires(r, n) =>
      /\ Len(st'[r].errors) > Len(st[r].errors)
      /\ st'[r].errors[Len(st'[r].errors)] = TimeoutTag(n)
      /\ pc'[r] \notin {"done", "raised", "ended"}
      /\ \A q \in Runs \ {r} :
           /\ pc'[q] = pc[q] /\ st'[q] = st[q] /\ loc'[q] = loc[q]
           /\ res'[q] = res[q] /\ obs'[q] = obs[q]
      /\ store' = store
      /\ batch' = batch

\* C12: when the timeout around Strategy n fires in a run, modeN_timeout is
\* appended to the error list of that run, the run goes on to the stage
\* that follows Strategy n, and nothing of any other run of the batch, of the
\* store or of the batch changes in that step.
C12_TimeoutRecordedAndLocal == []TimeoutRecorded /\ [][TimeoutStep]_vars

C12_Witness ==
  /\ batch.pc = "returned"
  /\ obs[1].timed_out = {1, 2, 3}
  /\ batch.final[1].kind = "result" /\ batch.final[1].escalated
  /\ batch.final[1].errors = <<"mode1_timeout", "mode2_timeout", "mode3_timeout">>
  /\ obs[2].timed_out = {}
  /\ batch.final[2].kind = "result" /\ ~batch.final[2].escalated
  /\ batch.final[2].districts_upserted = 2

\* C13 as stated: the mode_used of a returned result is 0 in every escalated
\* run and in every run in which no strategy stored a payload, and otherwise
\* is the number of the strategy whose payload is in the slot (2 or 3).
C13_ModeUsedNamesSupplier ==
  \A r \in Runs :
    pc[r] = "done" =>
      /\ res[r].escalated => res[r].mode_used = 0
      /\ obs[r].supplier = 0 => res[r].mode_used = 0
      /\ (~res[r].escalated /\ obs[r].supplier # 0) => res[r].mode_used = obs[r].supplier

\* the tags Strategy 3 and its wrapper leave when Strategy 3 fails
Mode3FailureTags ==
  {"mode3_timeout", "mode3_exception", "mode3_modal_timeout", "mode3_modal_http", "mode3_modal"}

\* Strategy 2 was called while the state held no URL
NoUrlAtMode2(r) == Ran(r, "mode2") /\ UrlOf(st[r]) = ""

\* C14: when Strategy 2 is called with no URL in the state (discovery found
\* none, the caller gave none), it appends mode2_no_url and stores no
\* payload; Strategy 3 is invoked next; and when Strategy 3 stores no payload
\* either, the run returns escalated=true, three zero counts and an error
\* list holding mode2_no_url and a failure tag of Strategy 3.
C14_NoUrlPath ==
  \A r \in Runs :
    NoUrlAtMode2(r) =>
      /\ HasError(st[r], "mode2_no_url")
      /\ obs[r].after2 = Absent
      /\ obs[r].supplier # 2
      /\ pc[r] \in {"gate3", "mode3"} \/ Ran(r, "mode3")
      /\ (Ran(r, "mode3") /\ obs[r].supplier # 3) =>
           /\ pc[r] \in {"breaker", "esc_insert", "esc_update", "finish", "done"}
           /\ \E tag \in Mode3FailureTags : HasError(st[r], tag)
           /\ pc[r] = "done" =>
                /\ res[r].escalated
                /\ res[r].districts_upserted = 0
                /\ res[r].standards_upserted = 0
                /\ res[r].uses_upserted = 0
                /\ \E i \in 1..Len(res[r].errors) : res[r].errors[i] = "mode2_no_url"
                /\ \E i \in 1..Len(res[r].errors) : res[r].errors[i] \in Mode3FailureTags

C14_Witness ==
  \E r \in Runs :
    /\ pc[r] = "done" /\ NoUrlAtMode2(r)
    /\ obs[r].stages = <<"mode1", "mode2", "mode3", "escalate">>
    /\ res[r].errors = <<"mode2_no_url", "mode3_modal_http">>
    /\ res[r].escalated

\* at least one district, every district with its own code, every standard
\* and use naming the code of a district of the payload
Consistent(p) ==
  /\ p.t = "obj" /\ p.districts # <<>>
  /\ \A i \in 1..Len(p.districts) : p.districts[i].has_code
  /\ \A i, k \in 1..Len(p.districts) : p.districts[i].code = p.districts[k].code => i = k
  /\ \A i \in 1..Len(p.standards) : \E k \in 1..Len(p.districts) : p.districts[k].code = p.standards[i].district_code
  /\ \A i \in 1..Len(p.uses) : \E k \in 1..Len(p.districts) : p.districts[k].code = p.uses[i].district_code

\* C15: a run that returns with a consistent payload in the slot, for a
\* county that matches a jurisdiction and with no failed store call, reports
\* as districts_upserted, standards_upserted and uses_upserted the numbers
\* of districts, standards and uses of the payload, and escalated=false.
C15_CountsEqualPayload ==
  \A r \in Runs :
    (pc[r] = "done" /\ Consistent(st[r].extracted_data) /\ obs[r].failed = {} /\ Matching(r) # {}) =>
      /\ res[r].districts_upserted = Len(st[r].extracted_data.districts)
      /\ res[r].standards_upserted = Len(st[r].extracted_data.standards)
      /\ res[r].uses_upserted = Len(st[r].extracted_data.uses)
      /\ ~res[r].escalated

C15_Witness ==
  \E r \in Runs :
    /\ pc[r] = "done" /\ st[r].extracted_data = PExample /\ obs[r].failed = {}
    /\ res[r].districts_upserted = 1 /\ res[r].standards_upserted = 1 /\ res[r].uses_upserted = 0
    /\ ~res[r].escalated
    /\ Cardinality(store.zoning_districts) = 1 /\ Cardinality(store.zone_standards) = 1

\* C16: in every state of the store, every District row names the id of an
\* existing Jurisdiction row, and every Standard row and every PermittedUse
\* row names the id of an existing District row.
C16_ReferencesExist ==
  /\ \A d \in store.zoning_districts : \E j \in store.jurisdictions : j.id = d.jurisdiction_id
  /\ \A s \in store.zone_standards : \E d \in store.zoning_districts : d.id = s.zoning_district_id
  /\ \A u \in store.permitted_uses : \E d \in store.zoning_districts : d.id = u.zoning_district_id

C16_Witness ==
  /\ \A r \in Runs : pc[r] = "ended"
  /\ {d.jurisdiction_id : d \in store.zoning_districts} = {1, 2}
  /\ Cardinality(store.zoning_districts) = 3
  /\ store.zone_standards # {} /\ store.permitted_uses # {}
  /\ \E r \in Runs : st[r].extracted_data = PDrop /\ Dropped(st[r], loc[r]) > 0

CompletenessInRange == \A j \in store.jurisdictions : j.data_completeness \in (-1)..100

\* some jurisdiction's completeness is negative after the step and was not
\* before it
TurnsNegative ==
  \E j \in store'.jurisdictions :
    /\ j.data_completeness < 0
    /\ \A k \in store.jurisdictions : k.id = j.id => k.data_completeness >= 0

\* the step is the update of escalate_to_insights, in a run whose slot holds
\* no district and no standard
EscalationStep ==
  \E r \in Runs :
    /\ pc[r] = "esc_update" /\ pc'[r] = "finish"
    /\ obs[r].stages[Len(obs[r].stages)] = "escalate"
    /\ SlotEmpty(st[r])

\* C17: every jurisdiction's completeness stays within -1..100, and a step
\* that turns a completeness negative is the update of the circuit-breaker
\* escalation, taken by a run whose final extracted data has no district and
\* no standard.
C17_CompletenessOnlyByEscalation ==
  []CompletenessInRange /\ [][TurnsNegative => EscalationStep]_vars

C17_Witness ==
  \E r \in Runs :
    /\ prev.ran /\ prev.outcome = "done" /\ ~prev.res.escalated /\ prev.rows.districts = 1
    /\ pc[r] = "done" /\ res[r].escalated /\ st[r].extracted_data = PUsesOnly
    /\ \A j \in Matching(r) : j.data_completeness = -1
    /\ \E j \in store.jurisdictions : j.data_completeness = -1

\* the rows of the three tables by their natural keys, generated ids left out
NaturalRows(db) ==
  [districts |-> {<<d.jurisdiction_id, d.code>> : d \in db.zoning_districts},
   standards |-> {<<x[1].jurisdiction_id, x[1].code, x[2].standard_type>> :
                    x \in {y \in db.zoning_districts \X db.zone_standards : y[2].zoning_district_id = y[1].id}},
   uses |-> {<<x[1].jurisdiction_id, x[1].code, x[2].use_name>> :
               x \in {y \in db.zoning_districts \X db.permitted_uses : y[2].zoning_district_id = y[1].id}}]

\* both runs of the pair went through persist_to_supabase, on different
\* jurisdictions, and have ended
PairPersisted ==
  /\ \A r \in Runs : pc[r] = "ended" /\ Ran(r, "persist") /\ loc[r].jurisdiction_id # 0
  /\ loc[1].jurisdiction_id # loc[2].jurisdiction_id

OneThenOther(a, b) ==
  persist_sequential(persist_sequential(Store0, st[a].extracted_data, loc[a].jurisdiction_id),
                     st[b].extracted_data, loc[b].jurisdiction_id)

\* C18: when two runs of one batch have persisted for different
\* jurisdictions, the District, Standard and PermittedUse rows in the store
\* are those that running the first and then the second leaves, and those
\* that running the second and then the first leaves, however the store
\* calls of the two runs were interleaved.
C18_InterleavingAsSequential ==
  PairPersisted =>
    /\ NaturalRows(store) = NaturalRows(OneThenOther(1, 2))
    /\ NaturalRows(store) = NaturalRows(OneThenOther(2, 1))

\* the ids show that the store calls of the two runs alternated
C18_Witness ==
  /\ PairPersisted /\ batch.max_concurrent = 2
  /\ st[1].extracted_data = PDrop /\ st[2].extracted_data = PTwo
  /\ \E d1, d2 \in store.zoning_districts, s1, s2 \in store.zone_standards :
       /\ d1.jurisdiction_id = loc[1].jurisdiction_id /\ d2.jurisdiction_id = loc[2].jurisdiction_id
       /\ s1.zoning_district_id = d1.id /\ s2.zoning_district_id = d2.id
       /\ d1.id < d2.id /\ d2.id < s1.id /\ s1.id < s2.id
  /\ Cardinality(store.permitted_uses) = 1

\* the step is the insert of escalate_to_insights, in a run whose slot holds
\* no district and no standard, and it adds one row behind the others
InsightInsertStep ==
  \E r \in Runs :
    /\ pc[r] = "esc_insert" /\ pc'[r] = "esc_update"
    /\ obs[r].stages[Len(obs[r].stages)] = "escalate"
    /\ SlotEmpty(st[r])
    /\ Len(store'.insights) = Len(store.insights) + 1
    /\ SubSeq(store'.insights, 1, Len(store.insights)) = store.insights
    /\ store'.insights[Len(store'.insights)].type = "ESCALATE"
    /\ store'.insights[Len(store'.insights)].county = st[r].county_slug
    /\ store'.insights[Len(store'.insights)].error = st[r].errors

\* C19: the insights table changes only by the insert of
\* escalate_to_insights, in a run whose final extracted data has no district
\* and no standard, and that insert appends one row: no step changes or
\* removes a row that is already there.
C19_InsightsAppendOnly == [][store'.insights # store.insights => InsightInsertStep]_vars

C19_Witness ==
  \E r \in Runs :
    /\ prev.ran /\ prev.res.kind = "result" /\ prev.res.escalated
    /\ pc[r] = "done" /\ res[r].escalated
    /\ Len(store.insights) = 2
    /\ store.insights[1].error = prev.res.errors
    /\ store.insights[2].error = res[r].errors
    /\ store.insights[1].error # store.insights[2].error

\* the District row of jurisdiction jid with this code, as the store holds it
StoreDistricts(jid, code) == {d \in store.zoning_districts : d.jurisdiction_id = jid /\ d.code = code}

\* a run that returned from persist_to_supabase with a resolved jurisdiction
\* and no failed store call
PersistedCleanly(r) ==
  /\ pc[r] = "done" /\ Ran(r, "persist")
  /\ loc[r].jurisdiction_id # 0 /\ obs[r].failed = {}

\* C20 as stated: after such a run, every Standard and every Use of the
\* payload whose district_code is the code of a District row that the store
\* holds for the jurisdiction has its row in the store, also when the payload
\* carries no districts.
C20_ResolvesAgainstStore ==
  \A r \in Runs :
    PersistedCleanly(r) =>
      LET p == st[r].extracted_data
          jid == loc[r].jurisdiction_id
      IN /\ \A i \in 1..Len(p.standards) :
              \A d \in StoreDistricts(jid, p.standards[i].district_code) :
                \E s \in store.zone_standards :
                  s.zoning_district_id = d.id /\ s.standard_type = p.standards[i].standard_type
         /\ \A i \in 1..Len(p.uses) :
              \A d \in StoreDistricts(jid, p.uses[i].district_code) :
                \E u \in store.permitted_uses :
                  u.zoning_district_id = d.id /\ u.use_name = p.uses[i].use_name

\* ---- Mode 1 and the URL handed to Mode 2 ----
\* the run went through Mode 1 with its answers on record
Discovered(r) == Ran(r, "mode1") /\ "queries" \in DOMAIN prev

\* url = state.get("municode_url") or state.get("gis_url"): what Mode 2 fetches
FetchedUrl(r) == UrlOf(st[r])

\* C21 as stated: when a query of Strategy 1 found a URL, Strategy 2 fetches
\* that URL, and Strategy 2 fetches a URL of the caller only when no query
\* found one.
C21_DiscoveredUrlFetched ==
  \A r \in Runs :
    (Discovered(r) /\ Ran(r, "mode2")) =>
      /\ prev.found_url # "" => FetchedUrl(r) = prev.found_url
      /\ FetchedUrl(r) \in {MuniCfg, GisCfg} => prev.found_url = ""

\* C27 as stated: once Strategy 1 is over, the portal_validated that the
\* result will carry is true exactly when a query found a URL or the caller
\* supplied one.
C27_ValidatedIffUrl ==
  \A r \in Runs :
    Discovered(r) =>
      (ResultOf(st[r]).portal_validated <=> (prev.found_url # "" \/ UrlOf(prev.before) # ""))

Matches == {"municode", "arcgis", "both"}
\* the first query whose answer ends the loop: it holds a URL, the budget
\* is used up before it, or the wait_for fires while it is awaited
\* (NumQueries + 1 when no answer does)
FirstEnd(qs) ==
  IF \E i \in 1..NumQueries : qs[i] \in Matches \cup {"budget", "cancel"}
  THEN CHOOSE i \in 1..NumQueries :
         /\ qs[i] \in Matches \cup {"budget", "cancel"}
         /\ \A k \in 1..(i - 1) : qs[k] \notin Matches \cup {"budget", "cancel"}
  ELSE NumQueries + 1

UpTo(n) == [i \in 1..n |-> i]

\* C28: Strategy 1 sends its queries in the order 1, 2, 3; at the first
\* answer that holds a URL of a known kind it takes that URL, the municode
\* one when the answer holds both kinds, and sends no further query.
C28_FirstMatchWins ==
  \A r \in Runs :
    (Discovered(r) /\ ~prev.crash) =>
      LET e == FirstEnd(prev.queries)
      IN /\ \E n \in 0..NumQueries : prev.issued = UpTo(n)
         /\ (e <= NumQueries /\ prev.queries[e] \in Matches) =>
              /\ prev.issued = UpTo(e)
              /\ prev.found_url = (IF prev.queries[e] = "arcgis" THEN ArcFound ELSE MuniFound)
              /\ st[r].portal_type = (IF prev.queries[e] = "arcgis" THEN "arcgis" ELSE "municode")
              /\ st[r].portal_validated
         /\ (e > NumQueries \/ prev.queries[e] \notin Matches) => prev.found_url = ""

C28_Witness ==
  \E r \in Runs :
    /\ Discovered(r) /\ ~prev.crash
    /\ prev.queries = <<"none", "both", "arcgis">>
    /\ prev.issued = <<1, 2>>
    /\ prev.found_url = MuniFound
    /\ st[r].municode_url = MuniFound

\* the queries before the one that ends the loop whose request failed
FailedBefore(qs, e) == {i \in 1..(e - 1) : qs[i] = "error"}
OutOfBudget(qs) == FirstEnd(qs) <= NumQueries /\ qs[FirstEnd(qs)] = "budget"

\* C29: every query of Strategy 1 whose request fails leaves one mode1_query
\* entry and the queries after it are still sent; when the time budget is
\* used up no further query is sent, nothing is appended for it and the
\* failures counter is not touched.
C29_QueryErrorsDoNotAbort ==
  \A r \in Runs :
    (Discovered(r) /\ ~prev.crash) =>
      LET qs == prev.queries
          e == FirstEnd(qs)
          k == Cardinality(FailedBefore(qs, e))
      IN /\ prev.issued = UpTo(IF OutOfBudget(qs) THEN e - 1 ELSE IF e > NumQueries THEN NumQueries ELSE e)
         /\ Count(st[r].errors, "mode1_query") = k
         /\ OutOfBudget(qs) =>
              /\ st[r].failures = 0
              /\ ~HasError(st[r], "mode1_timeout") /\ ~HasError(st[r], "mode1_exception")
              /\ st[r].mode_used >= 1
              /\ pc[r] = "mode2" => st[r].errors = [i \in 1..k |-> "mode1_query"]

C29_Witness ==
  \E r \in Runs :
    /\ Discovered(r) /\ ~prev.crash /\ pc[r] = "mode2"
    /\ prev.queries = <<"error", "none", "budget">>
    /\ prev.issued = <<1, 2>>
    /\ st[r].errors = <<"mode1_query">>
    /\ st[r].failures = 0

\* persist_to_supabase has made its jurisdictions select and it failed or
\* no row matches the county
Unresolved(r) ==
  /\ Ran(r, "persist") /\ pc[r] # "persist_select" /\ Truthy(st[r].extracted_data)
  /\ "select_jurisdictions" \in obs[r].failed \/ Matching(r) = {}

\* C22: when persist_to_supabase cannot resolve the jurisdiction it appends
\* persist_jurisdictions (the select failed) or persist_no_jurisdictions (no
\* row), makes no further store call and returns: the store is as it was
\* before the run and the three counts are 0.
C22_NoWriteWithoutJurisdiction ==
  \A r \in Runs :
    Unresolved(r) =>
      /\ pc[r] \in {"finish", "done"}
      /\ store = Store0
      /\ obs[r].wrote = {}
      /\ IF "select_jurisdictions" \in obs[r].failed
         THEN HasError(st[r], "persist_jurisdictions")
         ELSE HasError(st[r], "persist_no_jurisdictions")
      /\ st[r].districts_upserted = 0 /\ st[r].standards_upserted = 0 /\ st[r].uses_upserted = 0

C22_Witness ==
  \E r \in Runs :
    /\ Unresolved(r) /\ pc[r] = "done"
    /\ st[r].county_name = POLK /\ st[r].extracted_data = PTwo
    /\ res[r].errors = <<"persist_no_jurisdictions">>
    /\ ~res[r].escalated /\ res[r].districts_upserted = 0
    /\ store = Store0

\* what the store would hold had every store call of the run succeeded
AllSucceeded(r) == NaturalRows(persist_sequential(Store0, st[r].extracted_data, loc[r].jurisdiction_id))

\* the run returned from a persist_to_supabase in which exactly this upsert
\* failed (the last-validated update aside)
OnlyFailed(r, call) ==
  /\ pc[r] = "done" /\ Ran(r, "persist") /\ loc[r].jurisdiction_id # 0
  /\ call \in obs[r].failed
  /\ obs[r].failed \subseteq {call, "update_last_validated"}

\* C23: when the Standards upsert fails, persist_standards is appended and
\* standards_upserted stays 0, and the Uses upsert is still made: the use
\* rows and uses_upserted are what they are when no call fails.  The same
\* holds with the two upserts exchanged.
C23_StandardsAndUsesIndependent ==
  \A r \in Runs :
    /\ OnlyFailed(r, "upsert_standards") =>
         /\ HasError(st[r], "persist_standards") /\ ~HasError(st[r], "persist_uses")
         /\ res[r].standards_upserted = 0 /\ store.zone_standards = {}
         /\ NaturalRows(store).uses = AllSucceeded(r).uses
         /\ res[r].uses_upserted = Cardinality(AllSucceeded(r).uses)
    /\ OnlyFailed(r, "upsert_uses") =>
         /\ HasError(st[r], "persist_uses") /\ ~HasError(st[r], "persist_standards")
         /\ res[r].uses_upserted = 0 /\ store.permitted_uses = {}
         /\ NaturalRows(store).standards = AllSucceeded(r).standards
         /\ res[r].standards_upserted = Cardinality(AllSucceeded(r).standards)

C23_Witness ==
  \E r \in Runs :
    /\ OnlyFailed(r, "upsert_standards") /\ obs[r].failed = {"upsert_standards"}
    /\ st[r].extracted_data = PTwo
    /\ res[r].errors = <<"persist_standards">>
    /\ res[r].standards_upserted = 0 /\ res[r].uses_upserted = 1
    /\ Cardinality(store.permitted_uses) = 1

\* the step in which Strategy 3 of run r ends without having stored a payload
Mode3Fails(r) == pc[r] = "mode3" /\ pc'[r] # "mode3" /\ obs'[r].supplier # 3

\* C24: a Strategy 3 that fails (rejected request, transport timeout, any
\* other exception, or the timeout of its wrapper) appends exactly one error
\* entry, one of the Strategy 3 tags, and leaves the extracted-data slot and
\* mode_used as they were before Strategy 3 started.
C24_Mode3FailureKeepsState ==
  [][\A r \in Runs :
       Mode3Fails(r) =>
         /\ Len(st'[r].errors) = Len(st[r].errors) + 1
         /\ SubSeq(st'[r].errors, 1, Len(st[r].errors)) = st[r].errors
         /\ st'[r].errors[Len(st'[r].errors)] \in Mode3FailureTags
         /\ st'[r].extracted_data = st[r].extracted_data
         /\ st'[r].mode_used = st[r].mode_used]_vars

C24_Witness ==
  \E r \in Runs :
    /\ pc[r] = "done" /\ st[r].anti_scrape
    /\ obs[r].stages = <<"mode1", "mode2", "mode3", "persist">>
    /\ obs[r].supplier = 2 /\ res[r].mode_used = 2
    /\ st[r].extracted_data = PExample
    /\ res[r].errors = <<"mode3_modal_http">>
    /\ res[r].districts_upserted = 1

\* the run is at, or has gone through, the "if not has_data or anti_scrape"
\* with an empty slot, so Strategy 3 is next or has run
AtMode3Decision(r) == pc[r] \in {"gate3", "mode3"} \/ Ran(r, "mode3")

\* C25: when the model call of Strategy 2 fails, mode2_claude is appended;
\* when its answer does not parse as JSON, mode2_json is appended; in both
\* cases the extracted-data slot stays unset and the run goes on to the
\* decision about Strategy 3.
C25_ModelFailureRecoverable ==
  \A r \in Runs :
    /\ obs[r].llm = "unparsable" =>
         /\ HasError(st[r], "mode2_json") /\ ~HasError(st[r], "mode2_claude")
         /\ obs[r].after2 = Absent /\ obs[r].supplier # 2
         /\ AtMode3Decision(r)
    /\ obs[r].llm = "error" =>
         /\ HasError(st[r], "mode2_claude") /\ ~HasError(st[r], "mode2_json")
         /\ obs[r].after2 = Absent /\ obs[r].supplier # 2
         /\ AtMode3Decision(r)

C25_Witness ==
  \E r \in Runs :
    /\ pc[r] = "done" /\ obs[r].llm = "unparsable"
    /\ obs[r].stages = <<"mode1", "mode2", "mode3", "persist">>
    /\ res[r].errors = <<"mode2_json">>
    /\ obs[r].supplier = 3 /\ res[r].districts_upserted = 2

EscalationCalls == {"insert_insight", "update_completeness"}

\* C26: when the insert into insights or the completeness update fails,
\* escalate_to_insights does not raise and still makes the other write, and
\* the run returns a result with escalated=true and the error list
\* accumulated by the strategies.
C26_EscalationFailuresSwallowed ==
  \A r \in Runs :
    (Ran(r, "escalate") /\ obs[r].failed \cap EscalationCalls # {}) =>
      /\ pc[r] \in {"esc_update", "finish", "done"}
      /\ (pc[r] # "esc_update" /\ "update_completeness" \notin obs[r].failed) =>
           \A j \in Matching(r) : j.data_completeness = -1
      /\ "insert_insight" \notin obs[r].failed => Len(store.insights) = 1
      /\ pc[r] # "esc_update" => st[r].escalated
      /\ pc[r] = "done" =>
           /\ res[r].kind = "result" /\ res[r].escalated
           /\ res[r].errors = st[r].errors

C26_Witness ==
  \E r \in Runs :
    /\ pc[r] = "done" /\ obs[r].failed = EscalationCalls
    /\ res[r].escalated /\ res[r].errors = <<"mode2_no_url", "mode3_modal_timeout">>
    /\ store = Store0

WrapperTags ==
  {"mode1_timeout", "mode2_timeout", "mode3_timeout", "mode1_exception", "mode2_exception", "mode3_exception"}

Mode2LeftDistricts(r) ==
  /\ Ran(r, "mode2")
  /\ IsDict(obs[r].after2)
  /\ obs[r].after2.districts # <<>>

\* C31: a run in which Strategy 2 left a payload with at least one district
\* never ends escalated, whatever Strategy 3 returns.
C31_Mode2DataNeverEscalates ==
  \A r \in Runs :
    (pc[r] = "done" /\ Mode2LeftDistricts(r)) => ~res[r].escalated

\* ------------------------------------------------------------------------
\* The two terminal stages exclude each other
\* ------------------------------------------------------------------------
Completeness(db) == {<<j.id, j.data_completeness>> : j \in db.jurisdictions}

\* C32: in every run that returns exactly one of escalate_to_insights and
\* persist_to_supabase ran; an escalated run did not run persist, reports
\* three counts of 0 and wrote no district, standard or use row; a run that
\* is not escalated inserted no insights row and wrote no completeness.
C32_OneTerminalStage ==
  \A r \in Runs :
    pc[r] = "done" =>
      /\ Count(obs[r].stages, "escalate") + Count(obs[r].stages, "persist") = 1
      /\ res[r].escalated <=> Ran(r, "escalate")
      /\ res[r].escalated =>
           /\ ~Ran(r, "persist")
           /\ res[r].districts_upserted = 0
           /\ res[r].standards_upserted = 0
           /\ res[r].uses_upserted = 0
           /\ obs[r].wrote = {}
           /\ store.zoning_districts = Store0.zoning_districts
           /\ store.zone_standards = Store0.zone_standards
           /\ store.permitted_uses = Store0.permitted_uses
      /\ ~res[r].escalated =>
           /\ obs[r].inserted = 0
           /\ store.insights = Store0.insights
           /\ Completeness(store) = Completeness(Store0)

\* both kinds of return are reached: here the escalated one, with both of
\* its writes done
C32_Witness ==
  \E r \in Runs :
    /\ pc[r] = "done" /\ res[r].escalated
    /\ obs[r].inserted = 1 /\ obs[r].failed = {}
    /\ Completeness(store) # Completeness(Store0)
    /\ Ran(r, "mode3")

\* ------------------------------------------------------------------------
\* What an escalation record says about the strategies
\* ------------------------------------------------------------------------
\* C33: whenever escalate_to_insights runs, Strategy 1, Strategy 2 and
\* Strategy 3 have each been invoked before it in the same run, in this
\* order and once each, so modes_attempted = [1, 2, 3] in every record
\* that is written is accurate.
C33_EscalationAfterAllModes ==
  /\ \A r \in Runs :
        Ran(r, "escalate") => obs[r].stages = <<"mode1", "mode2", "mode3", "escalate">>
  /\ \A i \in 1..Len(store.insights) : store.insights[i].modes_attempted = <<1, 2, 3>>

\* an escalation of a county that is not anti-scrape, after a Strategy 3
\* that was cut off, with its record written
C33_Witness ==
  \E r \in Runs :
    /\ Ran(r, "escalate") /\ obs[r].inserted = 1
    /\ ~st[r].anti_scrape
    /\ 3 \in obs[r].timed_out
    /\ Len(store.insights) = 1

\* ------------------------------------------------------------------------
\* persist_to_supabase and data_completeness
\* ------------------------------------------------------------------------
PersistStages ==
  {"persist_select", "persist_districts", "persist_reread", "persist_standards",
   "persist_uses", "persist_update"}

\* the step is a store call of persist_to_supabase
PersistStep == \E r \in Runs : pc[r] \in PersistStages

\* the earlier run of the caller escalated and its completeness update
\* succeeded
EscalatedBefore ==
  /\ prev.ran /\ prev.res.kind = "result" /\ prev.res.escalated
  /\ "update_completeness" \notin prev.failed

\* C34: no store call of persist_to_supabase changes the data_completeness
\* of any jurisdiction, and the jurisdictions that an earlier escalated run
\* set to -1 still have -1 during and after a later run for the same
\* county, also when that run persisted districts.
C34_PersistKeepsCompleteness ==
  /\ [](EscalatedBefore => \A r \in Runs : \A j \in Matching(r) : j.data_completeness = -1)
  /\ [][PersistStep => Completeness(store') = Completeness(store)]_vars

\* the second run persisted a district after the first run had escalated
C34_Witness ==
  \E r \in Runs :
    /\ EscalatedBefore
    /\ pc[r] = "done" /\ ~res[r].escalated /\ res[r].districts_upserted > 0
    /\ store.zoning_districts # {}
    /\ \E j \in Matching(r) : j.data_completeness = -1 /\ j.skill_last_validated

\* ------------------------------------------------------------------------
\* The frame of escalate_to_insights
\* ------------------------------------------------------------------------
\* the jurisdiction row belongs to the county of the run
OfCounty(j, r) == LowerSeq(j.county) = LowerSeq(st[r].county_name)

\* C35: a store call of escalate_to_insights for county C changes only the
\* completeness of jurisdictions of county C and adds at most one insights
\* row: the jurisdiction rows of every other county and the district,
\* standard and use rows stay as they are.
C35_EscalationTouchesOwnCounty ==
  [][\A r \in Runs :
       pc[r] \in {"esc_insert", "esc_update"} =>
         /\ \A j \in store.jurisdictions : ~OfCounty(j, r) => j \in store'.jurisdictions
         /\ store'.zoning_districts = store.zoning_districts
         /\ store'.zone_standards = store.zone_standards
         /\ store'.permitted_uses = store.permitted_uses
         /\ Len(store'.insights) \in {Len(store.insights), Len(store.insights) + 1}]_vars

\* ------------------------------------------------------------------------
\* Termination of run_batch
\* ------------------------------------------------------------------------
\* C36: every call of run_batch eventually comes to an end, for every list
\* of configs and every integer max_concurrent the request accepts: no task
\* waits for a slot of the semaphore forever. The ValueError that
\* asyncio.Semaphore raises at once for a negative value is counted as an
\* end here, so that only a call that never ends violates the formula.
C36_BatchReturns == <>(batch.pc \in {"returned", "raised"})

\* ------------------------------------------------------------------------
\* The source-kind tag after Strategy 1
\* ------------------------------------------------------------------------
\* the URLs that the municode pattern and the arcgis pattern of Strategy 1
\* accept
DocumentLibraryUrls == {MuniFound, MuniCfg}
MappingPortalUrls == {ArcFound, GisCfg}

\* Strategy 1 ran to its return statement
Mode1Returned(r) ==
  /\ pc[r] = "mode2" /\ Ran(r, "mode1")
  /\ ~prev.crash /\ 1 \notin obs[r].timed_out

\* C37: after Strategy 1 has returned, portal_type describes the URL that
\* Strategy 2 will fetch: it is "municode" only if that URL is a
\* document-library URL and "arcgis" only if it is a mapping-portal URL.
C37_TagDescribesFetchedUrl ==
  \A r \in Runs :
    (Mode1Returned(r) /\ UrlOf(st[r]) # "") =>
      /\ st[r].portal_type = "municode" => UrlOf(st[r]) \in DocumentLibraryUrls
      /\ st[r].portal_type = "arcgis" => UrlOf(st[r]) \in MappingPortalUrls

\* ------------------------------------------------------------------------
\* The accumulated error list
\* ------------------------------------------------------------------------
\* C38: within a run the error list only grows: every step keeps the
\* entries it found, in their order, and appends at the end; the entries
\* that a strategy appended before its timeout cut it off are kept; and the
\* errors field of the result is the whole accumulated list.
C38_ErrorsOnlyGrow ==
  /\ [][\A r \in Runs : IsPrefix(st[r].errors, st'[r].errors)]_vars
  /\ [](\A r \in Runs : pc[r] = "done" => res[r].errors = st[r].errors)

\* Strategy 1 recorded a failed query and was then cut off; later stages
\* appended their own entries behind it
C38_Witness ==
  \E r \in Runs :
    /\ pc[r] = "done"
    /\ 1 \in obs[r].timed_out
    /\ res[r].errors = <<"mode1_query", "mode1_timeout", "mode2_no_url", "mode3_modal_timeout">>

\* ------------------------------------------------------------------------
\* The routing rules of route_with_tool_search
\* ------------------------------------------------------------------------
\* C39: a request that does not need county tools gets use_tool_search
\* false and model None; a request that needs them and names more than one
\* county gets tool search with the Opus model; a request that needs them
\* and names a single county gets tool search with the Sonnet model.
C39_RoutingRules ==
  \A r \in Runs :
    pc[r] = "routed" =>
      LET needs == st[r].needs_county_tools = "true"
          n == Len(st[r].counties)
      IN /\ ~needs => (~res[r].use_tool_search /\ res[r].model = "None")
         /\ (needs /\ n > 1) => (res[r].use_tool_search /\ res[r].model = "claude-opus-4-6")
         /\ (needs /\ n = 1) => (res[r].use_tool_search /\ res[r].model = "claude-sonnet-4-5-20250929")

\* ------------------------------------------------------------------------
\* The MCP workflow nodes on a failed router call
\* ------------------------------------------------------------------------
\* the node that ran last made its router call and got success = false
CallFailed(r) == obs[r].called /\ ~obs[r].result.success

\* C40: each of scraper_node_mcp, qa_node_mcp, analysis_node_mcp and
\* report_node_mcp, when its CountyRouterMCP call returns success = false,
\* does not raise, sets next_node to error_handler and records the error of
\* the call in state.error.
C40_FailedCallGoesToErrorHandler ==
  \A r \in Runs :
    CallFailed(r) =>
      /\ pc[r] # "raised"
      /\ st[r].next_node = "error_handler"
      /\ st[r].error = obs[r].result.error

====
